---- MODULE Spec2Model ----
(***************************************************************************)
(* Aura (Feriguel/Aura): the worker thread pool, the guarded scene store   *)
(* of the Environment, the frame loop of the Nucleus and the per-frame     *)
(* submission chain of the Render, as state machines.                      *)
(*                                                                         *)
(* One set of variables, several specifications: each specification runs   *)
(* one subsystem with its callers and leaves the others at rest.           *)
(*   SpecPool      ThreadPool with a caller that enqueues, waits, destroys *)
(*   FairSpecPool  the same, with the scheduling fairness of the threads   *)
(*   FairSpecShutdown  the same, the destructor being scheduled too        *)
(*   SpecEnv       Environment with mutator threads and the sync routines  *)
(*   FairSpecEnv   the same, with the scheduling fairness of the threads   *)
(*   SpecCap       the add functions of the Environment, call after call   *)
(*   SpecCapSync   the same beside one updateScene of the renderer         *)
(*   SpecSeq       entity calls of a single thread, one after the other    *)
(*   SpecNew       concurrent newEntity calls on a nearly full scene       *)
(*   SpecLoad      entityLoadModel on an empty or nearly full scene        *)
(*   SpecAdd       concurrent add calls on a nearly full scene             *)
(*   SpecSync      the sync routines beside entityAddPrimitive calls       *)
(*   SpecFrame     Render::renderFrame and the device it submits to        *)
(*   SpecRun       Nucleus::run, the render task, the pool and the device  *)
(*   FairSpecRun   the same, with the scheduling fairness of the threads   *)
(*   SpecLoop      Nucleus::run(0) with a window that may be closed        *)
(***************************************************************************)
EXTENDS Naturals, Integers, Sequences, FiniteSets, TLC

\* ------------------------------------------------------------------------
\* Bounds of the model.
\* ------------------------------------------------------------------------
\* Largest pool size tried (n_threads ranges over 1..MaxThreads).
MaxThreads == 3
\* Largest number of tasks the pool's caller enqueues (K ranges over 0..MaxTasks).
MaxTasks == 3
\* Mutator threads calling into the Environment.
MaxMutators == 2
\* Calls the threads of SpecEnv start in all.
MaxOps == 3
\* Scene objects ever allocated (the first one and those passed to replaceScene).
MaxScenes == 3
\* Material indices the callers pass (0..MaxMaterialIdx).
MaxMaterialIdx == 1
\* Calls made on a collection that is full, in SpecCapSync.
MaxOver == 2
\* Calls the one thread of SpecSeq makes.
MaxSeqOps == 4
\* Lines of a model file passed to entityLoadModel (0..MaxLines).
MaxLines == 3
\* Calls of entityLoadModel made in SpecLoad.
MaxLoads == 1
\* Calls the threads of SpecSync start in all.
MaxSyncOps == 4
\* Largest DisplaySettings::anti_aliasing tried (0..MaxSamples).
MaxSamples == 2
\* Largest DisplaySettings::ray_depth tried (1..MaxDepth).
MaxDepth == 3
\* Calls of Render::renderFrame made in SpecFrame; largest argument of run.
MaxFrames == 2
\* Largest pool size tried under Nucleus::run (1..MaxRunThreads).
MaxRunThreads == 2
\* Tasks enqueued on the pool in an unlimited run.
MaxIssued == 6
\* Acquisitions that find no image ready, in one run.
MaxAcquireFails == 1
\* Fence waits that time out, in one run or in one call of Render::renderFrame.
MaxTimeouts == 1

\* ------------------------------------------------------------------------
\* State.
\* ------------------------------------------------------------------------
VARIABLES
    \* ThreadPool (thread_pool.hpp:34-126)
    n_threads,      \* ThreadPool::n_threads
    stopping,       \* ThreadPool::stopping
    tasks,          \* ThreadPool::tasks, the FIFO queue of task records
    wstate,         \* per worker: where its cycle() stands
    wtask,          \* per worker: the task moved out of the queue (cycle's local `task`)
    \* The caller of the pool: enqueues K increment tasks, waits, destroys.
    nTasks,         \* K
    cpc,            \* the caller's position
    ci,             \* the caller's loop index (next task to enqueue / future to wait / thread to join)
    counter,        \* the shared atomic counter the tasks increment
    ran,            \* per task: how many times its body was executed
    future,         \* per task: whether the packaged_task made its future ready
    queuedAtStop,   \* history: the tasks that were in the queue when ~ThreadPool set stopping
    \* Environment (environment.hpp:30-44) and the scenes it has owned
    scene,          \* Environment::scene, the pointer to the current scene
    scenes,         \* the heap: every Scene object allocated so far
    written,        \* history, per scene and collection: payload written since the flag was last cleared
    guardExcl,      \* Environment::guard: the thread holding it exclusively (NoThread if none)
    guardShared,    \* Environment::guard: the threads holding it shared
    cmutex,         \* per scene and collection: the thread holding UpdateGuard::guard
    loc,            \* per thread: the call it is in, its position and its locals
    last,           \* history, per thread: the call that returned last and what it returned
    opsLeft,        \* calls the threads may still start
    nScenes,        \* Scene objects allocated so far
    rend,           \* RayTracer: the render-side copies and n_primitives
    ub,             \* history: an access with undefined behaviour has happened
    \* Render (render.hpp:64-105): one call of Render::renderFrame after another
    anti_aliasing,  \* DisplaySettings::anti_aliasing
    ray_depth,      \* DisplaySettings::ray_depth
    frame,          \* the thread inside Render::renderFrame: position, command buffers, history of the call
    dev,            \* the device: fence, semaphores, compute queue, present queue
    \* Nucleus (nucleus.cpp) and the thread inside Nucleus::run
    nucleus,        \* Nucleus::frame_counter, frame_limit, rendering
    run,            \* the thread inside run: position, render_task, the futures handed out and ready
    wpc             \* per worker: its position inside the task it runs, and the jobs it waits for

poolVars   == <<n_threads, stopping, tasks, wstate, wtask>>
callerVars == <<nTasks, cpc, ci, counter, ran, future, queuedAtStop>>
envVars    == <<scene, scenes, written, guardExcl, guardShared, cmutex, loc, last,
                opsLeft, nScenes, rend, ub>>
frameVars  == <<anti_aliasing, ray_depth, frame, dev>>
runVars    == <<nucleus, run, wpc>>
vars       == <<poolVars, callerVars, envVars, frameVars, runVars>>

\* What the actions of one subsystem leave alone.
outsidePool  == <<envVars, frameVars, runVars>>
outsideEnv   == <<poolVars, callerVars, frameVars, runVars>>
outsideFrame == <<poolVars, callerVars, envVars, runVars>>
outsideRun   == <<callerVars, envVars, anti_aliasing, ray_depth, frame>>

NoTask == [kind |-> "none", id |-> 0]
IncTask(i) == [kind |-> "inc", id |-> i]

MaterialIdx == 0..MaxMaterialIdx

Workers == 1..n_threads
TaskIds == 1..nTasks

\* ------------------------------------------------------------------------
\* Render: semaphores, submissions and the device.
\* ------------------------------------------------------------------------
\* WorkTypes::n (render.hpp:44), the stages of one sample.
WorkTypes_n == 4
\* `std::uint32_t n_submits { 2U };` in Render::renderImage.
n_submits == 2

\* The samples of a frame: anti_aliasing, or one when it is 0.
SampleCount(aa) == IF aa = 0 THEN 1 ELSE aa

\* main_semaphores[i] and sample_dispatches[s].c_semaphores[j], as numbers.
MainSemaphore(i) == i
SampleSemaphore(s, j) == 3 + s * WorkTypes_n + j
\* The semaphores createFramework and setUpDispatch create.
Semaphores(aa) == 0..(2 + SampleCount(aa) * WorkTypes_n)

\* vk::SubmitInfo {}: no wait, no command buffer, no signal; fence is the fence
\* passed to the submit call that carries it.
EmptySubmit == [waits |-> {}, cmds |-> <<>>, signals |-> {}, fence |-> FALSE]

\* The thread of Render::renderFrame outside a call, with nothing recorded.
FrameIdle ==
    [pc |-> "idle", c_buffers |-> [i \in 0..2 |-> <<>>], submits |-> <<>>,
     synced |-> FALSE, calls |-> 0, result |-> "none", timeouts |-> 0]

\* The device after createFramework and setUpDispatch: fence and semaphores
\* unsignalled, queues empty. signalled / waited count per semaphore since the
\* current call of renderFrame began; executed lists the commands run since then.
DeviceIdle(aa) ==
    [fence |-> FALSE, acquiring |-> FALSE,
     sem |-> [s \in Semaphores(aa) |-> FALSE],
     signalled |-> [s \in Semaphores(aa) |-> 0],
     waited |-> [s \in Semaphores(aa) |-> 0],
     queue |-> <<>>, present |-> <<>>, presented |-> 0, executed |-> <<>>]

FrameInit(aa, depth) ==
    /\ anti_aliasing = aa
    /\ ray_depth = depth
    /\ frame = FrameIdle
    /\ dev = DeviceIdle(aa)

\* ------------------------------------------------------------------------
\* Nucleus: state after construction.
\* ------------------------------------------------------------------------
\* A worker that is not inside a task. dispatched is the value dispatchFrame
\* returned to the render task the worker runs (false until it returns).
NoWork == [pc |-> "none", jobs |-> <<>>, dispatched |-> FALSE]

\* Nucleus::Nucleus: frame_counter(0), frame_limit(0), rendering(false); no call
\* of run yet, no future handed out. max_frames is the argument run will get;
\* fails and timeouts count the acquisitions that found no image and the fence
\* waits that timed out; close is what ui.shouldWindowClose() returns. thrower is
\* the worker whose task last ended by an exception (0 if none) and
\* issuedAtThrow the number of tasks enqueued until then.
NucleusInit(max_frames) ==
    /\ nucleus = [frame_counter |-> 0, frame_limit |-> 0, rendering |-> FALSE]
    /\ run = [pc |-> "idle", max_frames |-> max_frames, render_task |-> 0,
              issued |-> 0, ready |-> {}, fails |-> 0, timeouts |-> 0,
              close |-> FALSE, thrower |-> 0, issuedAtThrow |-> 0]
    /\ wpc = [w \in 1..n_threads |-> NoWork]

\* ------------------------------------------------------------------------
\* ThreadPool.
\* ------------------------------------------------------------------------
\* The constructor: stopping(false), n_threads workers each entering cycle().
ThreadPoolInit(n) ==
    /\ n_threads = n
    /\ stopping = FALSE
    /\ tasks = <<>>
    /\ wstate = [w \in 1..n |-> "lock"]
    /\ wtask = [w \in 1..n |-> NoTask]

\* enqueue, its locked block: tasks.emplace(wrapper).
QueuePushFront(q, t) == <<t>> \o q
QueuePush(q, t) == Append(q, t)

\* cycle: the predicate of event_trigger.wait.
CycleWakePredicate == stopping \/ tasks # <<>>

\* cycle: `if(stopping && tasks.empty()) break;`
CycleBreaksDropping == stopping
CycleBreaks == stopping /\ tasks = <<>>

\* cycle: `task = std::move(tasks.front()); tasks.pop();`
QueueFront(q) == Head(q)
QueuePopKeeping(q) == q
QueuePop(q) == Tail(q)

\* cycle, the locked block of one iteration: the worker holds event_guard, evaluates
\* the wait predicate and either blocks on the condition variable (releasing the
\* mutex), leaves the loop, or moves the front task out of the queue.
CycleHoldingMutex(w) ==
    /\ wstate[w] = "lock"
    /\ \A v \in Workers : wstate[v] # "task"
    /\ IF ~CycleWakePredicate
         THEN /\ wstate' = [wstate EXCEPT ![w] = "waiting"]
              /\ UNCHANGED <<tasks, wtask>>
         ELSE IF CycleBreaks
                THEN /\ wstate' = [wstate EXCEPT ![w] = "exited"]
                     /\ UNCHANGED <<tasks, wtask>>
                ELSE /\ wtask' = [wtask EXCEPT ![w] = QueueFront(tasks)]
                     /\ tasks' = QueuePop(tasks)
                     /\ wstate' = [wstate EXCEPT ![w] = "task"]
    /\ UNCHANGED <<n_threads, stopping>>
    /\ UNCHANGED outsidePool
Cycle(w) ==
    /\ wstate[w] = "lock"
    /\ IF ~CycleWakePredicate
         THEN /\ wstate' = [wstate EXCEPT ![w] = "waiting"]
              /\ UNCHANGED <<tasks, wtask>>
         ELSE IF CycleBreaks
                THEN /\ wstate' = [wstate EXCEPT ![w] = "exited"]
                     /\ UNCHANGED <<tasks, wtask>>
                ELSE /\ wtask' = [wtask EXCEPT ![w] = QueueFront(tasks)]
                     /\ tasks' = QueuePop(tasks)
                     /\ wstate' = [wstate EXCEPT ![w] = "task"]
    /\ UNCHANGED <<n_threads, stopping>>
    /\ UNCHANGED outsidePool

\* std::condition_variable::wait may return without a notification; the worker then
\* re-acquires the mutex and re-evaluates the predicate.
SpuriousWake(w) ==
    /\ wstate[w] = "waiting"
    /\ wstate' = [wstate EXCEPT ![w] = "lock"]
    /\ UNCHANGED <<n_threads, stopping, tasks, wtask>>
    /\ UNCHANGED outsidePool

\* event_trigger.notify_one(): one blocked worker, if any, is released.
NotifyOne ==
    IF \E w \in Workers : wstate[w] = "waiting"
      THEN \E w \in Workers :
              /\ wstate[w] = "waiting"
              /\ wstate' = [wstate EXCEPT ![w] = "lock"]
      ELSE UNCHANGED wstate

\* event_trigger.notify_all(): every blocked worker is released.
NotifyNobody == UNCHANGED wstate
NotifyAll ==
    wstate' = [w \in Workers |-> IF wstate[w] = "waiting" THEN "lock" ELSE wstate[w]]

\* cycle: `task();` for an increment task, outside the lock. The packaged_task runs
\* the body and makes the future ready.
RunIncTask(w) ==
    /\ wstate[w] = "task"
    /\ wtask[w].kind = "inc"
    /\ counter' = counter + 1
    /\ ran' = [ran EXCEPT ![wtask[w].id] = @ + 1]
    /\ future' = [future EXCEPT ![wtask[w].id] = TRUE]
    /\ wstate' = [wstate EXCEPT ![w] = "lock"]
    /\ wtask' = [wtask EXCEPT ![w] = NoTask]
    /\ UNCHANGED <<n_threads, stopping, tasks, nTasks, cpc, ci, queuedAtStop>>
    /\ UNCHANGED outsidePool

\* ------------------------------------------------------------------------
\* The caller of the pool.
\* ------------------------------------------------------------------------
CallerInit(k) ==
    /\ nTasks = k
    /\ cpc = "enqueue"
    /\ ci = 1
    /\ counter = 0
    /\ ran = [t \in 1..k |-> 0]
    /\ future = [t \in 1..k |-> FALSE]
    /\ queuedAtStop = {}

\* enqueue(task), up to the end of the locked block.
Enqueue ==
    /\ cpc = "enqueue"
    /\ ci <= nTasks
    /\ tasks' = QueuePush(tasks, IncTask(ci))
    /\ cpc' = "notify"
    /\ UNCHANGED <<n_threads, stopping, wstate, wtask, nTasks, ci, counter, ran, future, queuedAtStop>>
    /\ UNCHANGED outsidePool

\* enqueue(task), after the lock: notify_one and return the future.
EnqueueNotify ==
    /\ cpc = "notify"
    /\ NotifyOne
    /\ cpc' = "enqueue"
    /\ ci' = ci + 1
    /\ UNCHANGED <<n_threads, stopping, tasks, wtask, nTasks, counter, ran, future, queuedAtStop>>
    /\ UNCHANGED outsidePool

\* All K tasks are enqueued: the caller starts waiting on the futures in order.
StartWaiting ==
    /\ cpc = "enqueue"
    /\ ci > nTasks
    /\ cpc' = "wait"
    /\ ci' = 1
    /\ UNCHANGED <<poolVars, nTasks, counter, ran, future, queuedAtStop>>
    /\ UNCHANGED outsidePool

\* future.wait() on the ci-th future: returns once the future is ready.
FutureWait ==
    /\ cpc = "wait"
    /\ ci <= nTasks
    /\ future[ci]
    /\ ci' = ci + 1
    /\ UNCHANGED <<poolVars, nTasks, cpc, counter, ran, future, queuedAtStop>>
    /\ UNCHANGED outsidePool

\* Every wait has returned.
AllWaited ==
    /\ cpc = "wait"
    /\ ci > nTasks
    /\ cpc' = "waited"
    /\ UNCHANGED <<poolVars, nTasks, ci, counter, ran, future, queuedAtStop>>
    /\ UNCHANGED outsidePool

\* ~ThreadPool, the locked block: stopping = true. The caller may destroy the pool
\* once it has enqueued its tasks, whether or not it has waited on the futures.
Destructor ==
    /\ cpc \in {"wait", "waited"}
    /\ stopping' = TRUE
    /\ queuedAtStop' = {tasks[i].id : i \in 1..Len(tasks)}
    /\ cpc' = "notify_all"
    /\ UNCHANGED <<n_threads, tasks, wstate, wtask, nTasks, ci, counter, ran, future>>
    /\ UNCHANGED outsidePool

\* ~ThreadPool: event_trigger.notify_all().
DestructorNotify ==
    /\ cpc = "notify_all"
    /\ NotifyAll
    /\ cpc' = "join"
    /\ ci' = 1
    /\ UNCHANGED <<n_threads, stopping, tasks, wtask, nTasks, counter, ran, future, queuedAtStop>>
    /\ UNCHANGED outsidePool

\* ~ThreadPool: thread.join() on the ci-th worker.
DestructorJoin ==
    /\ cpc = "join"
    /\ ci <= n_threads
    /\ wstate[ci] = "exited"
    /\ ci' = ci + 1
    /\ UNCHANGED <<poolVars, nTasks, cpc, counter, ran, future, queuedAtStop>>
    /\ UNCHANGED outsidePool

\* ~ThreadPool returns.
DestructorDone ==
    /\ cpc = "join"
    /\ ci > n_threads
    /\ cpc' = "destroyed"
    /\ UNCHANGED <<poolVars, nTasks, ci, counter, ran, future, queuedAtStop>>
    /\ UNCHANGED outsidePool

\* ------------------------------------------------------------------------
\* Environment: the guarded scene store.
\* ------------------------------------------------------------------------
\* EnvLimits (settings.hpp:51-63).
limit_entities == 10
limit_primitives == 2000
limit_materials == 10
limit_vertices == 4000

\* The guarded members of Scene (structures.hpp:144-158).
Colls == {"camera", "vertices", "transforms", "materials", "primitives", "entities"}

NoThread == 0
Mutators == 1..MaxMutators
RenderThread == MaxMutators + 1
EnvThreads == 1..(MaxMutators + 1)
SceneIds == 1..MaxScenes

\* A Primitive* : the scene and the buffer of its primitive vector it points into,
\* and the position in that buffer (1-based; 0 is nullptr).
NullPtr == [s |-> 0, buf |-> 0, idx |-> 0]

\* Scene {} (structures.hpp:144-158): every UpdateGuard starts with updated { true }
\* and empty data. pbuf and pcap are the buffer and the capacity of primitives.data.
NewScene ==
    [life |-> "alive", deletes |-> 0,
     updated |-> [c \in Colls |-> TRUE],
     camera |-> 0, vertices |-> <<>>, transforms |-> <<>>, materials |-> <<>>,
     primitives |-> <<>>, pbuf |-> 0, pcap |-> 0, entities |-> <<>>]

\* A Scene object that does not exist: not allocated yet, or deleted.
NoScene(life, deletes) ==
    [NewScene EXCEPT !.life = life, !.deletes = deletes,
                     !.updated = [c \in Colls |-> FALSE]]

\* Transform {} (structures.hpp:41-49): three identity matrices (0 is the identity).
NewTransform == [translation |-> 0, scaling |-> 0, rotation |-> 0]

\* The locals of entityLoadModel: whether the thread is inside it, the lines of the
\* file not read yet, whether the second triangle of a quad is still to be added;
\* and, as history, the sizes found at the call and the vertices and primitives
\* the call has added.
NoLoad ==
    [on |-> FALSE, file |-> <<>>, quad |-> FALSE,
     v0 |-> 0, p0 |-> 0, ep0 |-> 0, nv |-> 0, np |-> 0]

IdleLoc ==
    [op |-> "idle", pc |-> "idle", coll |-> "none", item |-> 0, e |-> 0, m |-> 0,
     field |-> "none", ptr |-> NullPtr, seen |-> 0, old |-> 0, new |-> 0, upd |-> FALSE,
     load |-> NoLoad]

NoCall == [op |-> "none", ok |-> FALSE, idx |-> 0]

\* The Environment with no thread inside it, its scene being sc, and the
\* RayTracer's copies empty.
EnvInitWith(ops, sc) ==
    /\ scene = 1
    /\ scenes = [s \in SceneIds |-> IF s = 1 THEN sc ELSE NoScene("unallocated", 0)]
    /\ written = [s \in SceneIds |-> [c \in Colls |-> s = 1]]
    /\ guardExcl = NoThread
    /\ guardShared = {}
    /\ cmutex = [s \in SceneIds |-> [c \in Colls |-> NoThread]]
    /\ loc = [t \in EnvThreads |-> IdleLoc]
    /\ last = [t \in EnvThreads |-> NoCall]
    /\ opsLeft = ops
    /\ nScenes = 1
    /\ rend = [vertices |-> <<>>, transforms |-> <<>>, materials |-> <<>>,
               primitives |-> <<>>, launcher |-> 0, n_primitives |-> 0]
    /\ ub = FALSE

\* Environment::Environment (environment.cpp:34-38): scene(new Scene()).
EnvInit(ops) == EnvInitWith(ops, NewScene)

\* The capacity each add checks against: addTransform checks limit_entities.
LimitLooseTransforms(c) ==
    CASE c = "vertices" -> limit_vertices
      [] c = "transforms" -> limit_primitives
      [] c = "primitives" -> limit_primitives
      [] c = "materials" -> limit_materials
      [] c = "entities" -> limit_entities
Limit(c) ==
    CASE c = "vertices" -> limit_vertices
      [] c = "transforms" -> limit_entities
      [] c = "primitives" -> limit_primitives
      [] c = "materials" -> limit_materials
      [] c = "entities" -> limit_entities

\* add*: `if(n == EnvLimits::limit) return nullptr;`
AtLimitOffByOne(c, n) == n > Limit(c)
AtLimit(c, n) == n = Limit(c)

\* std::vector growth when size() == capacity(): geometric (capacity + capacity / 2,
\* at least one more element), every element moves to a new buffer.
VectorGrow(cap) == IF cap + (cap \div 2) > cap THEN cap + (cap \div 2) ELSE cap + 1

\* add*: idx = size; data.emplace_back(item); updated = true. The returned address
\* is that of the new element in the buffer the vector has after the insertion.
AppendedInFront(sc, c, item) ==
    LET grown == c = "primitives" /\ Len(sc.primitives) = sc.pcap
    IN  [sc EXCEPT ![c] = <<item>> \o @,
                   !.updated[c] = TRUE,
                   !.pbuf = IF grown THEN @ + 1 ELSE @,
                   !.pcap = IF grown THEN VectorGrow(@) ELSE @]
Appended(sc, c, item) ==
    LET grown == c = "primitives" /\ Len(sc.primitives) = sc.pcap
    IN  [sc EXCEPT ![c] = Append(@, item),
                   !.updated[c] = TRUE,
                   !.pbuf = IF grown THEN @ + 1 ELSE @,
                   !.pcap = IF grown THEN VectorGrow(@) ELSE @]

\* Whether a Primitive* still designates an element of a live primitive vector.
PtrValid(p) ==
    /\ p.s \in SceneIds
    /\ scenes[p.s].life = "alive"
    /\ scenes[p.s].pbuf = p.buf
    /\ p.idx \in 1..Len(scenes[p.s].primitives)

\* std::shared_lock / std::unique_lock on Environment::guard.
CanLockSharedIgnoringWriter == TRUE
CanLockShared == guardExcl = NoThread
CanLockExclusiveIgnoringReaders == guardExcl = NoThread
CanLockExclusive == guardExcl = NoThread /\ guardShared = {}

\* `std::shared_lock<std::shared_mutex> scene_lock(guard);` at position `from`.
LockShared(t, from, to) ==
    /\ loc[t].pc = from
    /\ CanLockShared
    /\ guardShared' = guardShared \cup {t}
    /\ loc' = [loc EXCEPT ![t].pc = to, ![t].seen = scene]
    /\ UNCHANGED <<scene, scenes, written, guardExcl, cmutex, last, opsLeft, nScenes, rend, ub>>

\* `std::unique_lock<std::mutex> lock(scene->c.guard);` at position `from`.
LockMutexOfScene(t, from, c, to) ==
    /\ loc[t].pc = from
    /\ \A d \in Colls : cmutex[scene][d] \in {NoThread, t}
    /\ cmutex' = [cmutex EXCEPT ![scene][c] = t]
    /\ loc' = [loc EXCEPT ![t].pc = to]
    /\ UNCHANGED <<scene, scenes, written, guardExcl, guardShared, last, opsLeft, nScenes, rend, ub>>
LockMutex(t, from, c, to) ==
    /\ loc[t].pc = from
    /\ cmutex[scene][c] = NoThread
    /\ cmutex' = [cmutex EXCEPT ![scene][c] = t]
    /\ loc' = [loc EXCEPT ![t].pc = to]
    /\ UNCHANGED <<scene, scenes, written, guardExcl, guardShared, last, opsLeft, nScenes, rend, ub>>

\* The locks of thread t go out of scope.
UnlockMutexes(t) ==
    cmutex' = [s \in SceneIds |-> [c \in Colls |->
                  IF cmutex[s][c] = t THEN NoThread ELSE cmutex[s][c]]]
UnlockAll(t) ==
    /\ guardShared' = guardShared \ {t}
    /\ UnlockMutexes(t)

\* The Primitive entityLoadModel passes on (its indices are overwritten).
LoadedPrimitive == [transform_idx |-> 0, material_idx |-> 0]

\* entityLoadModel returns.
LoadReturn(t, ok) ==
    /\ loc' = [loc EXCEPT ![t] = IdleLoc]
    /\ last' = [last EXCEPT ![t] = [op |-> "entityLoadModel", ok |-> ok, idx |-> 0]]

\* addVertex or entityAddPrimitive returns into entityLoadModel: on failure the
\* file is closed and false returned; after the first triangle of a quad the
\* second is added; otherwise the next line is read.
LoadResume(t, ok) ==
    IF ~ok
      THEN LoadReturn(t, FALSE)
      ELSE /\ loc' = [loc EXCEPT ![t] =
                  [IdleLoc EXCEPT
                      !.op = IF loc[t].load.quad THEN "entityAddPrimitive" ELSE "entityLoadModel",
                      !.pc = IF loc[t].load.quad THEN "eap1_shared" ELSE "elm_line",
                      !.e = loc[t].e,
                      !.item = LoadedPrimitive,
                      !.load = [loc[t].load EXCEPT
                                   !.quad = FALSE,
                                   !.nv = IF loc[t].op = "entityLoadModel" THEN @ + 1 ELSE @,
                                   !.np = IF loc[t].op = "entityAddPrimitive" THEN @ + 1 ELSE @]]]
           /\ UNCHANGED last

\* The call of thread t returns: to entityLoadModel if that is its caller.
Return(t, ok, idx) ==
    IF loc[t].load.on
      THEN LoadResume(t, ok)
      ELSE /\ loc' = [loc EXCEPT ![t] = IdleLoc]
           /\ last' = [last EXCEPT ![t] = [op |-> loc[t].op, ok |-> ok, idx |-> idx]]

\* A thread at rest starts a call.
Starts(t, l) ==
    /\ loc[t].pc = "idle"
    /\ opsLeft > 0
    /\ opsLeft' = opsLeft - 1
    /\ loc' = [loc EXCEPT ![t] = l]

\* What follows a return of add* in the caller: newEntity goes on to addEntity with
\* the new transform's index, entityAddPrimitive goes on to its last block with the
\* returned address, everything else returns to its own caller.
AfterAddUnchecked(t, ok, idx, ptr) ==
    CASE loc[t].op = "newEntity" /\ loc[t].coll = "transforms" /\ ok ->
            /\ loc' = [loc EXCEPT ![t].pc = "add_shared", ![t].coll = "entities",
                                  ![t].item = [transform_idx |-> idx,
                                               material_idx |-> loc[t].m,
                                               primitives |-> <<>>]]
            /\ UNCHANGED last
      [] loc[t].op = "entityAddPrimitive" ->
            /\ loc' = [loc EXCEPT ![t].pc = "eap3_shared", ![t].ptr = ptr]
            /\ UNCHANGED last
      [] OTHER -> Return(t, ok, idx)
AfterAdd(t, ok, idx, ptr) ==
    CASE loc[t].op = "newEntity" /\ loc[t].coll = "transforms" /\ ok ->
            /\ loc' = [loc EXCEPT ![t].pc = "add_shared", ![t].coll = "entities",
                                  ![t].item = [transform_idx |-> idx,
                                               material_idx |-> loc[t].m,
                                               primitives |-> <<>>]]
            /\ UNCHANGED last
      [] loc[t].op = "entityAddPrimitive" /\ ok ->
            /\ loc' = [loc EXCEPT ![t].pc = "eap3_shared", ![t].ptr = ptr]
            /\ UNCHANGED last
      [] OTHER -> Return(t, ok, idx)

\* addVertex / addTransform / addPrimitive / addMaterial / addEntity, the block
\* under the collection's mutex.
AddBodyMarking(t) ==
    /\ loc[t].pc = "add_body"
    /\ LET c == loc[t].coll
           sc == scenes[scene]
           n == Len(sc[c])
           after == Appended(sc, c, loc[t].item)
       IN  IF AtLimit(c, n)
             THEN /\ scenes' = [scenes EXCEPT ![scene].updated[c] = TRUE]
                  /\ UNCHANGED written
                  /\ AfterAdd(t, FALSE, 0, NullPtr)
             ELSE /\ scenes' = [scenes EXCEPT ![scene] = after]
                  /\ written' = [written EXCEPT ![scene][c] = TRUE]
                  /\ AfterAdd(t, TRUE, n, [s |-> scene, buf |-> after.pbuf, idx |-> n + 1])
    /\ UnlockAll(t)
    /\ UNCHANGED <<scene, guardExcl, opsLeft, nScenes, rend, ub>>
AddBody(t) ==
    /\ loc[t].pc = "add_body"
    /\ LET c == loc[t].coll
           sc == scenes[scene]
           n == Len(sc[c])
           after == Appended(sc, c, loc[t].item)
       IN  IF AtLimit(c, n)
             THEN /\ UNCHANGED <<scenes, written>>
                  /\ AfterAdd(t, FALSE, 0, NullPtr)
             ELSE /\ scenes' = [scenes EXCEPT ![scene] = after]
                  /\ written' = [written EXCEPT ![scene][c] = TRUE]
                  /\ AfterAdd(t, TRUE, n, [s |-> scene, buf |-> after.pbuf, idx |-> n + 1])
    /\ UnlockAll(t)
    /\ UNCHANGED <<scene, guardExcl, opsLeft, nScenes, rend, ub>>

\* add*, all its steps.
Add(t) ==
    \/ LockShared(t, "add_shared", "add_lock")
    \/ LockMutex(t, "add_lock", loc[t].coll, "add_body")
    \/ AddBody(t)

\* newVertex(vertex, idx) and newMaterial(material, idx): the call.
CallNew(t, op, c, item) ==
    Starts(t, [IdleLoc EXCEPT !.op = op, !.pc = "add_shared", !.coll = c, !.item = item])
    /\ UNCHANGED <<scene, scenes, written, guardExcl, guardShared, cmutex, last, nScenes, rend, ub>>

\* newEntity(material_idx, idx): a default Transform is added first.
CallNewEntity(t, m) ==
    Starts(t, [IdleLoc EXCEPT !.op = "newEntity", !.pc = "add_shared",
                              !.coll = "transforms", !.item = NewTransform, !.m = m])
    /\ UNCHANGED <<scene, scenes, written, guardExcl, guardShared, cmutex, last, nScenes, rend, ub>>

\* `Entity & entity = scene->entities.data[entity_idx];` designates an element.
EntityInRange(e) == e \in 1..Len(scenes[scene].entities)

\* A call abandoned on an access outside the entity vector (undefined behaviour).
Abandon(t) ==
    /\ ub' = TRUE
    /\ Return(t, FALSE, 0)
    /\ UnlockAll(t)
    /\ UNCHANGED <<scene, scenes, written, guardExcl, opsLeft, nScenes, rend>>

\* entityAddPrimitive(entity_idx, primitive): the call. The indices the primitive
\* carries in are the caller's.
CallEntityAddPrimitive(t, e, p) ==
    Starts(t, [IdleLoc EXCEPT !.op = "entityAddPrimitive", !.pc = "eap1_shared",
                              !.e = e, !.item = p])
    /\ UNCHANGED <<scene, scenes, written, guardExcl, guardShared, cmutex, last, nScenes, rend, ub>>

\* entityAddPrimitive, first block: the entity's indices are copied into the
\* primitive; both locks are released before addPrimitive.
EapCopyIndices(t) ==
    /\ loc[t].pc = "eap1_body"
    /\ IF EntityInRange(loc[t].e)
         THEN LET entity == scenes[scene].entities[loc[t].e]
              IN  /\ loc' = [loc EXCEPT ![t].pc = "add_shared", ![t].coll = "primitives",
                                        ![t].item = [transform_idx |-> entity.transform_idx,
                                                     material_idx |-> entity.material_idx]]
                  /\ UnlockAll(t)
                  /\ UNCHANGED <<scene, scenes, written, guardExcl, last, opsLeft, nScenes, rend, ub>>
         ELSE Abandon(t)

\* entityAddPrimitive, last block: the address addPrimitive returned is recorded on
\* the entity (entities.updated is not touched).
EapRecord(t) ==
    /\ loc[t].pc = "eap3_body"
    /\ IF EntityInRange(loc[t].e)
         THEN /\ scenes' = [scenes EXCEPT ![scene].entities[loc[t].e].primitives =
                                              Append(@, loc[t].ptr)]
              /\ written' = [written EXCEPT ![scene]["entities"] = TRUE]
              /\ Return(t, TRUE, 0)
              /\ UnlockAll(t)
              /\ UNCHANGED <<scene, guardExcl, opsLeft, nScenes, rend, ub>>
         ELSE Abandon(t)

EntityAddPrimitiveInverted(t) ==
    \/ LockShared(t, "eap1_shared", "eap1_lock")
    \/ LockMutex(t, "eap1_lock", "entities", "eap1_body")
    \/ EapCopyIndices(t)
    \/ LockShared(t, "eap3_shared", "eap3_lock_e")
    \/ LockMutex(t, "eap3_lock_e", "primitives", "eap3_lock_p")
    \/ LockMutex(t, "eap3_lock_p", "entities", "eap3_body")
    \/ EapRecord(t)
EntityAddPrimitive(t) ==
    \/ LockShared(t, "eap1_shared", "eap1_lock")
    \/ LockMutex(t, "eap1_lock", "entities", "eap1_body")
    \/ EapCopyIndices(t)
    \/ LockShared(t, "eap3_shared", "eap3_lock_e")
    \/ LockMutex(t, "eap3_lock_e", "entities", "eap3_lock_p")
    \/ LockMutex(t, "eap3_lock_p", "primitives", "eap3_body")
    \/ EapRecord(t)

\* entityMaterial(entity_idx, material_idx): the call.
CallEntityMaterial(t, e, m) ==
    Starts(t, [IdleLoc EXCEPT !.op = "entityMaterial", !.pc = "em_shared", !.e = e, !.m = m])
    /\ UNCHANGED <<scene, scenes, written, guardExcl, guardShared, cmutex, last, nScenes, rend, ub>>

\* entityMaterial: under the entities mutex, `entity.material_idx = material_idx;`
EmSetEntity(t) ==
    /\ loc[t].pc = "em_set"
    /\ IF EntityInRange(loc[t].e)
         THEN /\ scenes' = [scenes EXCEPT ![scene].entities[loc[t].e].material_idx = loc[t].m]
              /\ written' = [written EXCEPT ![scene]["entities"] = TRUE]
              /\ loc' = [loc EXCEPT ![t].pc = "em_lock_p"]
              /\ UNCHANGED <<scene, guardExcl, guardShared, cmutex, last, opsLeft, nScenes, rend, ub>>
         ELSE Abandon(t)

\* The primitive vectors after `p->material_idx = m` through each address of ptrs:
\* a write through an address that no longer designates an element changes no
\* element of a live vector.
MaterialWritten(ptrs, m) ==
    [s \in SceneIds |->
        [scenes[s] EXCEPT !.primitives =
            [i \in 1..Len(scenes[s].primitives) |->
                IF \E k \in 1..Len(ptrs) :
                      PtrValid(ptrs[k]) /\ ptrs[k].s = s /\ ptrs[k].idx = i
                  THEN [scenes[s].primitives[i] EXCEPT !.material_idx = m]
                  ELSE scenes[s].primitives[i]]]]

\* entityMaterial: under the primitives mutex, the material is propagated through
\* the addresses the entity holds (primitives.updated is not touched).
EmPropagate(t) ==
    /\ loc[t].pc = "em_body"
    /\ LET ptrs == scenes[scene].entities[loc[t].e].primitives
       IN  /\ scenes' = MaterialWritten(ptrs, loc[t].m)
           /\ written' = [s \in SceneIds |-> [c \in Colls |->
                            IF c = "primitives" /\ \E k \in 1..Len(ptrs) :
                                                      PtrValid(ptrs[k]) /\ ptrs[k].s = s
                              THEN TRUE ELSE written[s][c]]]
           /\ ub' = (ub \/ \E k \in 1..Len(ptrs) : ~PtrValid(ptrs[k]))
    /\ Return(t, TRUE, 0)
    /\ UnlockAll(t)
    /\ UNCHANGED <<scene, guardExcl, opsLeft, nScenes, rend>>

EntityMaterial(t) ==
    \/ LockShared(t, "em_shared", "em_lock_e")
    \/ LockMutex(t, "em_lock_e", "entities", "em_set")
    \/ EmSetEntity(t)
    \/ LockMutex(t, "em_lock_p", "primitives", "em_body")
    \/ EmPropagate(t)

\* entityTranslate / entityScale / entityRotate (entity_idx, vector): the call;
\* field names the matrix of the transform the call sets.
CallEntityTransform(t, e, field, v) ==
    Starts(t, [IdleLoc EXCEPT !.op = "entityTransform", !.pc = "et_shared",
                              !.e = e, !.field = field, !.item = v])
    /\ UNCHANGED <<scene, scenes, written, guardExcl, guardShared, cmutex, last, nScenes, rend, ub>>

\* entityTranslate / entityScale / entityRotate: under the entities and transforms
\* mutexes the matrix is stored (transforms.updated is not touched).
EtStore(t) ==
    /\ loc[t].pc = "et_body"
    /\ IF /\ EntityInRange(loc[t].e)
          /\ scenes[scene].entities[loc[t].e].transform_idx < Len(scenes[scene].transforms)
         THEN LET k == scenes[scene].entities[loc[t].e].transform_idx + 1
              IN  /\ scenes' = [scenes EXCEPT ![scene].transforms[k][loc[t].field] = loc[t].item]
                  /\ written' = [written EXCEPT ![scene]["transforms"] = TRUE]
                  /\ Return(t, TRUE, 0)
                  /\ UnlockAll(t)
                  /\ UNCHANGED <<scene, guardExcl, opsLeft, nScenes, rend, ub>>
         ELSE Abandon(t)

EntityTransformUnlocked(t) ==
    \/ LockShared(t, "et_shared", "et_lock_e")
    \/ LockMutex(t, "et_lock_e", "entities", "et_body")
    \/ EtStore(t)
EntityTransform(t) ==
    \/ LockShared(t, "et_shared", "et_lock_e")
    \/ LockMutex(t, "et_lock_e", "entities", "et_lock_t")
    \/ LockMutex(t, "et_lock_t", "transforms", "et_body")
    \/ EtStore(t)

\* entityLoadModel(entity_idx, path): the call. file is what the file at path
\* holds, line by line: "v" a vertex line, "f3", "f4", "f5" a face line of three,
\* four or another number of vertices. Any other line is skipped and left out.
CallEntityLoadModel(t, e, file) ==
    Starts(t, [IdleLoc EXCEPT
                  !.op = "entityLoadModel", !.pc = "elm_open", !.e = e,
                  !.load = [NoLoad EXCEPT
                               !.on = TRUE, !.file = file,
                               !.v0 = Len(scenes[scene].vertices),
                               !.p0 = Len(scenes[scene].primitives),
                               !.ep0 = Len(scenes[scene].entities[e].primitives)]])
    /\ UNCHANGED <<scene, scenes, written, guardExcl, guardShared, cmutex, last, nScenes, rend, ub>>

\* entityLoadModel: a path that does not end in ".obj" or a file that cannot be
\* opened returns false.
ElmOpen(t) ==
    /\ loc[t].pc = "elm_open"
    /\ \E opened \in BOOLEAN :
          IF opened
            THEN loc' = [loc EXCEPT ![t].pc = "elm_line"] /\ UNCHANGED last
            ELSE LoadReturn(t, FALSE)
    /\ UNCHANGED <<scene, scenes, written, guardExcl, guardShared, cmutex, opsLeft, nScenes, rend, ub>>

\* entityLoadModel, one turn of the loop: at the end of the file it returns
\* true; a vertex line goes to addVertex, a face line of three or four vertices
\* to entityAddPrimitive, any other face line returns false.
ElmLineRollingBack(t) ==
    /\ loc[t].pc = "elm_line"
    /\ LET file == loc[t].load.file
       IN  IF file = <<>>
             THEN LoadReturn(t, TRUE)
             ELSE CASE Head(file) = "v" ->
                         /\ loc' = [loc EXCEPT ![t].pc = "add_shared",
                                               ![t].coll = "vertices",
                                               ![t].item = 1,
                                               ![t].load.file = Tail(file)]
                         /\ UNCHANGED last
                    [] Head(file) \in {"f3", "f4"} ->
                         /\ loc' = [loc EXCEPT ![t].op = "entityAddPrimitive",
                                               ![t].pc = "eap1_shared",
                                               ![t].item = LoadedPrimitive,
                                               ![t].load.file = Tail(file),
                                               ![t].load.quad = (Head(file) = "f4")]
                         /\ UNCHANGED last
                    [] OTHER -> LoadReturn(t, FALSE)
    /\ scenes' = IF loc[t].load.file # <<>> /\ Head(loc[t].load.file) \notin {"v", "f3", "f4"}
                   THEN [scenes EXCEPT ![scene].vertices = SubSeq(@, 1, loc[t].load.v0)]
                   ELSE scenes
    /\ UNCHANGED <<scene, written, guardExcl, guardShared, cmutex, opsLeft, nScenes, rend, ub>>
ElmLine(t) ==
    /\ loc[t].pc = "elm_line"
    /\ LET file == loc[t].load.file
       IN  IF file = <<>>
             THEN LoadReturn(t, TRUE)
             ELSE CASE Head(file) = "v" ->
                         /\ loc' = [loc EXCEPT ![t].pc = "add_shared",
                                               ![t].coll = "vertices",
                                               ![t].item = 1,
                                               ![t].load.file = Tail(file)]
                         /\ UNCHANGED last
                    [] Head(file) \in {"f3", "f4"} ->
                         /\ loc' = [loc EXCEPT ![t].op = "entityAddPrimitive",
                                               ![t].pc = "eap1_shared",
                                               ![t].item = LoadedPrimitive,
                                               ![t].load.file = Tail(file),
                                               ![t].load.quad = (Head(file) = "f4")]
                         /\ UNCHANGED last
                    [] OTHER -> LoadReturn(t, FALSE)
    /\ UNCHANGED <<scene, scenes, written, guardExcl, guardShared, cmutex, opsLeft, nScenes, rend, ub>>

\* entityLoadModel, its own steps (those of addVertex and entityAddPrimitive are
\* Add and EntityAddPrimitive).
EntityLoadModel(t) ==
    \/ ElmOpen(t)
    \/ ElmLine(t)

\* A caller that edits the camera in place under both locks and sets the flag
\* (tests main.cpp:236-250).
CallCameraWrite(t, v) ==
    Starts(t, [IdleLoc EXCEPT !.op = "cameraWrite", !.pc = "cw_shared", !.item = v])
    /\ UNCHANGED <<scene, scenes, written, guardExcl, guardShared, cmutex, last, nScenes, rend, ub>>

CwStore(t) ==
    /\ loc[t].pc = "cw_body"
    /\ scenes' = [scenes EXCEPT ![scene].camera = loc[t].item,
                                ![scene].updated["camera"] = TRUE]
    /\ written' = [written EXCEPT ![scene]["camera"] = TRUE]
    /\ Return(t, TRUE, 0)
    /\ UnlockAll(t)
    /\ UNCHANGED <<scene, guardExcl, opsLeft, nScenes, rend, ub>>

CameraWrite(t) ==
    \/ LockShared(t, "cw_shared", "cw_lock")
    \/ LockMutex(t, "cw_lock", "camera", "cw_body")
    \/ CwStore(t)

\* replaceScene(new_scene): the call, with a scene the caller has just allocated.
CallReplaceScene(t) ==
    /\ nScenes < MaxScenes
    /\ Starts(t, [IdleLoc EXCEPT !.op = "replaceScene", !.pc = "rs_read", !.new = nScenes + 1])
    /\ nScenes' = nScenes + 1
    /\ scenes' = [scenes EXCEPT ![nScenes + 1] = NewScene]
    /\ written' = [written EXCEPT ![nScenes + 1] = [c \in Colls |-> TRUE]]
    /\ UNCHANGED <<scene, guardExcl, guardShared, cmutex, last, rend, ub>>

\* replaceScene: `Scene * old_scene = scene;` before the lock is taken.
RsReadOld(t) ==
    /\ loc[t].pc = "rs_read"
    /\ loc' = [loc EXCEPT ![t].pc = "rs_lock", ![t].old = scene]
    /\ UNCHANGED <<scene, scenes, written, guardExcl, guardShared, cmutex, last, opsLeft, nScenes, rend, ub>>

\* replaceScene: `std::unique_lock<std::shared_mutex> lock(guard);`
RsLock(t) ==
    /\ loc[t].pc = "rs_lock"
    /\ CanLockExclusive
    /\ guardExcl' = t
    /\ loc' = [loc EXCEPT ![t].pc = "rs_swap"]
    /\ UNCHANGED <<scene, scenes, written, guardShared, cmutex, last, opsLeft, nScenes, rend, ub>>

\* replaceScene: `scene = new_scene;` and the lock goes out of scope.
RsSwap(t) ==
    /\ loc[t].pc = "rs_swap"
    /\ scene' = loc[t].new
    /\ guardExcl' = NoThread
    /\ loc' = [loc EXCEPT ![t].pc = "rs_delete"]
    /\ UNCHANGED <<scenes, written, guardShared, cmutex, last, opsLeft, nScenes, rend, ub>>

\* replaceScene: `delete old_scene;` (deleting an object twice is undefined).
RsDelete(t) ==
    /\ loc[t].pc = "rs_delete"
    /\ scenes' = [scenes EXCEPT ![loc[t].old] = NoScene("deleted", scenes[loc[t].old].deletes + 1)]
    /\ written' = [written EXCEPT ![loc[t].old] = [c \in Colls |-> FALSE]]
    /\ ub' = (ub \/ scenes[loc[t].old].life # "alive")
    /\ Return(t, TRUE, 0)
    /\ UNCHANGED <<scene, guardExcl, guardShared, cmutex, opsLeft, nScenes, rend>>

ReplaceScene(t) ==
    \/ RsReadOld(t)
    \/ RsLock(t)
    \/ RsSwap(t)
    \/ RsDelete(t)

\* ------------------------------------------------------------------------
\* RayTracer: the delta-sync routines that consume the flags.
\* ------------------------------------------------------------------------
\* std::memcpy of `src` over the start of the mapped buffer `dst`.
Memcpy(dst, src) ==
    src \o (IF Len(dst) > Len(src) THEN SubSeq(dst, Len(src) + 1, Len(dst)) ELSE <<>>)

\* device.mapMemory: success with a mapping, success with mem left null, or an
\* error result.
MapOutcomes == {"mapped", "null", "failed"}

\* The first n elements of a vector (fewer when it holds fewer).
Prefix(seq, n) == SubSeq(seq, 1, IF n < Len(seq) THEN n ELSE Len(seq))

CallRender(t, op, pc, c) ==
    Starts(t, [IdleLoc EXCEPT !.op = op, !.pc = pc, !.coll = c])
    /\ UNCHANGED <<scene, scenes, written, guardExcl, guardShared, cmutex, last, nScenes, rend, ub>>

\* updateRenderSettings: n_primitives is read under the primitives mutex, then
\* the settings are copied to the device.
UrsRead(t) ==
    /\ loc[t].pc = "urs_body"
    /\ rend' = [rend EXCEPT !.n_primitives = Len(scenes[scene].primitives)]
    /\ Return(t, TRUE, 0)
    /\ UnlockAll(t)
    /\ UNCHANGED <<scene, scenes, written, guardExcl, opsLeft, nScenes, ub>>

UpdateRenderSettings(t) ==
    \/ LockShared(t, "urs_shared", "urs_lock")
    \/ LockMutex(t, "urs_lock", "primitives", "urs_body")
    \/ UrsRead(t)

\* updateRayLauncher, the locked block: without the flag it returns false; with it
\* the camera is copied to a local and the flag is cleared.
UrlTake(t) ==
    /\ loc[t].pc = "url_body"
    /\ IF ~scenes[scene].updated["camera"]
         THEN /\ Return(t, FALSE, 0)
              /\ UNCHANGED <<scenes, written>>
         ELSE /\ loc' = [loc EXCEPT ![t].pc = "url_copy", ![t].item = scenes[scene].camera]
              /\ scenes' = [scenes EXCEPT ![scene].updated["camera"] = FALSE]
              /\ written' = [written EXCEPT ![scene]["camera"] = FALSE]
              /\ UNCHANGED last
    /\ UnlockAll(t)
    /\ UNCHANGED <<scene, guardExcl, opsLeft, nScenes, rend, ub>>

\* updateRayLauncher, after the locks: the launcher computed from the local copy is
\* written to the mapped buffer when mapMemory gave a mapping; a failed mapMemory
\* throws. The flag was cleared in the locked block whatever happens here.
UrlCopy(t) ==
    /\ loc[t].pc = "url_copy"
    /\ \E m \in MapOutcomes :
          /\ rend' = IF m = "mapped" THEN [rend EXCEPT !.launcher = loc[t].item] ELSE rend
          /\ Return(t, m # "failed", 0)
    /\ UNCHANGED <<scene, scenes, written, guardExcl, guardShared, cmutex, opsLeft, nScenes, ub>>

UpdateRayLauncher(t) ==
    \/ LockShared(t, "url_shared", "url_lock")
    \/ LockMutex(t, "url_lock", "camera", "url_body")
    \/ UrlTake(t)
    \/ UrlCopy(t)

\* updateScene visits vertices, transforms, materials, primitives in this order.
NextColl(c) ==
    CASE c = "vertices" -> "transforms"
      [] c = "transforms" -> "materials"
      [] c = "materials" -> "primitives"
      [] c = "primitives" -> "none"

\* updateScene: what is copied for collection c. The primitives copy is
\* n_primitives elements long, every other copy data.size() elements.
SceneCopy(c) ==
    IF c = "primitives"
      THEN Prefix(scenes[scene].primitives, rend.n_primitives)
      ELSE scenes[scene][c]

\* updateScene, one block: under the collection's mutex, a collection whose flag is
\* set is mapped; a failed mapMemory throws out of updateScene with the flag still
\* set; otherwise the payload is copied if there is a mapping (`if(mem)`) and the
\* flag is cleared in either case. After the last block the shared lock is
\* released and `update` is returned.
UsBlock(t) ==
    /\ loc[t].pc = "us_body"
    /\ LET c == loc[t].coll
           dirty == scenes[scene].updated[c]
           upd == loc[t].upd \/ dirty
       IN  \E m \in (IF dirty THEN MapOutcomes ELSE {"none"}) :
             IF m = "failed"
               THEN /\ Return(t, FALSE, 0)
                    /\ UnlockAll(t)
                    /\ UNCHANGED <<rend, scenes, written, ub>>
               ELSE /\ IF dirty
                         THEN /\ rend' = IF m = "mapped"
                                           THEN [rend EXCEPT ![c] = Memcpy(@, SceneCopy(c))]
                                           ELSE rend
                              /\ scenes' = [scenes EXCEPT ![scene].updated[c] = FALSE]
                              /\ written' = [written EXCEPT ![scene][c] = FALSE]
                              /\ ub' = (ub \/ (m = "mapped" /\ c = "primitives" /\
                                               rend.n_primitives > Len(scenes[scene].primitives)))
                         ELSE UNCHANGED <<rend, scenes, written, ub>>
                    /\ IF NextColl(c) = "none"
                         THEN /\ Return(t, upd, 0)
                              /\ UnlockAll(t)
                         ELSE /\ loc' = [loc EXCEPT ![t].pc = "us_lock", ![t].coll = NextColl(c),
                                                   ![t].upd = upd]
                              /\ UnlockMutexes(t)
                              /\ UNCHANGED <<guardShared, last>>
    /\ UNCHANGED <<scene, guardExcl, opsLeft, nScenes>>

UpdateScene(t) ==
    \/ LockShared(t, "us_shared", "us_lock")
    \/ LockMutex(t, "us_lock", loc[t].coll, "us_body")
    \/ UsBlock(t)

\* ------------------------------------------------------------------------
\* SpecEnv: mutator threads, one render thread and the scene store.
\* ------------------------------------------------------------------------
InitEnv ==
    /\ ThreadPoolInit(1)
    /\ CallerInit(0)
    /\ EnvInit(MaxOps)
    /\ FrameInit(1, 1)
    /\ NucleusInit(0)

\* The calls a mutator thread may start.
MutatorCall(t) ==
    \/ CallNew(t, "newVertex", "vertices", 1)
    \/ CallNew(t, "newMaterial", "materials", 1)
    \/ \E m \in MaterialIdx : CallNewEntity(t, m)
    \/ \E e \in 1..Len(scenes[scene].entities) :
          \/ CallEntityAddPrimitive(t, e, [transform_idx |-> 0, material_idx |-> 0])
          \/ \E m \in MaterialIdx : CallEntityMaterial(t, e, m)
          \/ \E f \in {"translation", "scaling", "rotation"} : CallEntityTransform(t, e, f, 1)
    \/ CallCameraWrite(t, 1)
    \/ CallReplaceScene(t)

\* The steps of a mutator thread inside a call.
MutatorStep(t) ==
    \/ Add(t)
    \/ EntityAddPrimitive(t)
    \/ EntityMaterial(t)
    \/ EntityTransform(t)
    \/ CameraWrite(t)
    \/ ReplaceScene(t)

\* The calls the render thread may start.
RenderCall(t) ==
    \/ CallRender(t, "updateScene", "us_shared", "vertices")
    \/ CallRender(t, "updateRayLauncher", "url_shared", "camera")
    \/ CallRender(t, "updateRenderSettings", "urs_shared", "primitives")

\* The steps of the render thread inside a call.
RenderStep(t) ==
    \/ UpdateScene(t)
    \/ UpdateRayLauncher(t)
    \/ UpdateRenderSettings(t)

NextEnv ==
    \/ \E t \in Mutators : MutatorCall(t) /\ UNCHANGED outsideEnv
    \/ \E t \in Mutators : MutatorStep(t) /\ UNCHANGED outsideEnv
    \/ RenderCall(RenderThread) /\ UNCHANGED outsideEnv
    \/ RenderStep(RenderThread) /\ UNCHANGED outsideEnv

SpecEnv == InitEnv /\ [][NextEnv]_vars

\* The threads are scheduled: a thread inside a call that can take a step
\* eventually takes one. Nothing forces a thread to start a call.
FairSpecEnv ==
    /\ SpecEnv
    /\ \A t \in Mutators : WF_vars(MutatorStep(t) /\ UNCHANGED outsideEnv)
    /\ WF_vars(RenderStep(RenderThread) /\ UNCHANGED outsideEnv)

\* ------------------------------------------------------------------------
\* SpecCap: one thread fills one collection of an empty scene past its capacity.
\* ------------------------------------------------------------------------
\* The add function of each collection (environment.cpp:67-162).
AddName(c) ==
    CASE c = "vertices" -> "addVertex"
      [] c = "transforms" -> "addTransform"
      [] c = "primitives" -> "addPrimitive"
      [] c = "materials" -> "addMaterial"
      [] c = "entities" -> "addEntity"

AddColls == {"vertices", "transforms", "primitives", "materials", "entities"}

\* Calls made on the collection: two more than the largest capacity.
CapCalls == limit_vertices + 2

\* The calls made so far, the one in progress included.
CapCallNo == CapCalls - opsLeft

\* The thread that fills the collection.
CapThread == 1

InitCap ==
    /\ ThreadPoolInit(1)
    /\ CallerInit(0)
    /\ EnvInit(CapCalls)
    /\ FrameInit(1, 1)
    /\ NucleusInit(0)

\* add*(item, idx): the call. The first call picks the collection, every later
\* call is on the same one; the item passed is the number of the call.
CallAdd(t, c) ==
    /\ last[t].op \in {"none", AddName(c)}
    /\ Starts(t, [IdleLoc EXCEPT !.op = AddName(c), !.pc = "add_shared", !.coll = c,
                                 !.item = CapCallNo + 1])
    /\ UNCHANGED <<scene, scenes, written, guardExcl, guardShared, cmutex, last, nScenes, rend, ub>>

NextCap ==
    \/ \E c \in AddColls : CallAdd(CapThread, c) /\ UNCHANGED outsideEnv
    \/ Add(CapThread) /\ UNCHANGED outsideEnv

SpecCap == InitCap /\ [][NextCap]_vars

\* ------------------------------------------------------------------------
\* SpecCapSync: SpecCap with one updateScene of the renderer running beside the
\* adds once the collection is full.
\* ------------------------------------------------------------------------
\* The collection the thread fills has reached its capacity.
AtCapacity == \E c \in AddColls : Len(scenes[scene][c]) = Limit(c)

\* The thread stops MaxOver calls after the collection is full; the renderer
\* syncs once, at any time from then on.
NextCapSync ==
    \/ \E c \in AddColls :
          /\ CapCallNo < Limit(c) + MaxOver + 1
          /\ CallAdd(CapThread, c)
          /\ UNCHANGED outsideEnv
    \/ Add(CapThread) /\ UNCHANGED outsideEnv
    \/ /\ AtCapacity
       /\ last[RenderThread].op = "none"
       /\ CallRender(RenderThread, "updateScene", "us_shared", "vertices")
       /\ UNCHANGED outsideEnv
    \/ UpdateScene(RenderThread) /\ UNCHANGED outsideEnv

SpecCapSync == InitCap /\ [][NextCapSync]_vars

\* ------------------------------------------------------------------------
\* SpecSeq: one thread calls into the Environment, one call after the other.
\* ------------------------------------------------------------------------
InitSeq ==
    /\ ThreadPoolInit(1)
    /\ CallerInit(0)
    /\ EnvInit(MaxSeqOps)
    /\ FrameInit(1, 1)
    /\ NucleusInit(0)

\* The calls of the thread: newEntity, entityAddPrimitive with a primitive that
\* carries any indices, entityMaterial.
SeqCall(t) ==
    \/ \E m \in MaterialIdx : CallNewEntity(t, m)
    \/ \E e \in 1..Len(scenes[scene].entities) :
          \/ \E ti \in 0..1, mi \in MaterialIdx :
                CallEntityAddPrimitive(t, e, [transform_idx |-> ti, material_idx |-> mi])
          \/ \E m \in MaterialIdx : CallEntityMaterial(t, e, m)

NextSeq ==
    \/ SeqCall(CapThread) /\ UNCHANGED outsideEnv
    \/ MutatorStep(CapThread) /\ UNCHANGED outsideEnv

SpecSeq == InitSeq /\ [][NextSeq]_vars

\* ------------------------------------------------------------------------
\* SpecNew: the mutator threads call newEntity on a scene that has room for one
\* more entity per thread, until the entities are full and MaxOver calls more.
\* ------------------------------------------------------------------------
\* The scene after n calls newEntity(0) made one after the other on Scene {}.
SceneWithEntities(n) ==
    [NewScene EXCEPT !.transforms = [i \in 1..n |-> NewTransform],
                     !.entities = [i \in 1..n |-> [transform_idx |-> i - 1,
                                                   material_idx |-> 0,
                                                   primitives |-> <<>>]]]

InitNew ==
    /\ ThreadPoolInit(1)
    /\ CallerInit(0)
    /\ EnvInitWith(MaxMutators + MaxOver, SceneWithEntities(limit_entities - MaxMutators))
    /\ FrameInit(1, 1)
    /\ NucleusInit(0)

NextNew ==
    \/ \E t \in Mutators, m \in MaterialIdx : CallNewEntity(t, m) /\ UNCHANGED outsideEnv
    \/ \E t \in Mutators : Add(t) /\ UNCHANGED outsideEnv

SpecNew == InitNew /\ [][NextNew]_vars

\* ------------------------------------------------------------------------
\* SpecLoad: one thread loads a model file into the entity of a scene that is
\* empty or one element short of its vertex or primitive capacity.
\* ------------------------------------------------------------------------
\* Capacity and buffer of a std::vector grown from empty to n elements.
RECURSIVE VectorAfter(_, _, _)
VectorAfter(n, cap, buf) ==
    IF n <= cap THEN [cap |-> cap, buf |-> buf]
    ELSE VectorAfter(n, VectorGrow(cap), buf + 1)

\* The scene after nv calls of newVertex, newEntity(0) and np calls of
\* entityAddPrimitive on that entity, made one after the other on Scene {}.
SceneLoaded(nv, np) ==
    [NewScene EXCEPT
        !.vertices = [i \in 1..nv |-> 1],
        !.transforms = <<NewTransform>>,
        !.primitives = [i \in 1..np |-> [transform_idx |-> 0, material_idx |-> 0]],
        !.pbuf = VectorAfter(np, 0, 0).buf,
        !.pcap = VectorAfter(np, 0, 0).cap,
        !.entities = <<[transform_idx |-> 0, material_idx |-> 0,
                        primitives |-> [i \in 1..np |->
                            [s |-> 1, buf |-> VectorAfter(i, 0, 0).buf, idx |-> i]]]>>]

\* The lines entityLoadModel tells apart.
LineKinds == {"v", "f3", "f4", "f5"}

\* The files tried: up to MaxLines lines, every face line after a vertex line
\* (a face names vertices the file has defined).
Files ==
    {f \in UNION {[1..n -> LineKinds] : n \in 0..MaxLines} :
        \A i \in DOMAIN f : f[i] # "v" => \E j \in 1..(i - 1) : f[j] = "v"}

InitLoad ==
    /\ ThreadPoolInit(1)
    /\ CallerInit(0)
    /\ \E nv \in {0, limit_vertices - 1}, np \in {0, limit_primitives - 1} :
          EnvInitWith(MaxLoads, SceneLoaded(nv, np))
    /\ FrameInit(1, 1)
    /\ NucleusInit(0)

NextLoad ==
    \/ \E file \in Files : CallEntityLoadModel(CapThread, 1, file) /\ UNCHANGED outsideEnv
    \/ EntityLoadModel(CapThread) /\ UNCHANGED outsideEnv
    \/ Add(CapThread) /\ UNCHANGED outsideEnv
    \/ EntityAddPrimitive(CapThread) /\ UNCHANGED outsideEnv

SpecLoad == InitLoad /\ [][NextLoad]_vars

\* ------------------------------------------------------------------------
\* SpecAdd: the mutator threads call the add functions at the same time on a
\* scene in which every collection has room for one more element per thread,
\* until MaxOver calls more than that were made.
\* ------------------------------------------------------------------------
\* The scene after Limit(c) - MaxMutators calls of the add function of each
\* collection c, each passing the item 0.
SceneNearlyFull ==
    [NewScene EXCEPT
        !.vertices = [i \in 1..(limit_vertices - MaxMutators) |-> 0],
        !.transforms = [i \in 1..(limit_entities - MaxMutators) |-> 0],
        !.materials = [i \in 1..(limit_materials - MaxMutators) |-> 0],
        !.entities = [i \in 1..(limit_entities - MaxMutators) |-> 0],
        !.primitives = [i \in 1..(limit_primitives - MaxMutators) |-> 0],
        !.pbuf = VectorAfter(limit_primitives - MaxMutators, 0, 0).buf,
        !.pcap = VectorAfter(limit_primitives - MaxMutators, 0, 0).cap]

InitAdd ==
    /\ ThreadPoolInit(1)
    /\ CallerInit(0)
    /\ EnvInitWith(MaxMutators + MaxOver, SceneNearlyFull)
    /\ FrameInit(1, 1)
    /\ NucleusInit(0)

NextAdd ==
    \/ \E t \in Mutators, c \in AddColls : CallAdd(t, c) /\ UNCHANGED outsideEnv
    \/ \E t \in Mutators : Add(t) /\ UNCHANGED outsideEnv

SpecAdd == InitAdd /\ [][NextAdd]_vars

\* ------------------------------------------------------------------------
\* SpecSync: the render thread runs the sync routines while a mutator thread
\* adds primitives to the entity of a scene that holds none, one, or one less
\* than the capacity.
\* ------------------------------------------------------------------------
InitSync ==
    /\ ThreadPoolInit(1)
    /\ CallerInit(0)
    /\ \E np \in {0, 1, limit_primitives - 1} : EnvInitWith(MaxSyncOps, SceneLoaded(0, np))
    /\ FrameInit(1, 1)
    /\ NucleusInit(0)

NextSync ==
    \/ CallEntityAddPrimitive(CapThread, 1, LoadedPrimitive) /\ UNCHANGED outsideEnv
    \/ Add(CapThread) /\ UNCHANGED outsideEnv
    \/ EntityAddPrimitive(CapThread) /\ UNCHANGED outsideEnv
    \/ RenderCall(RenderThread) /\ UNCHANGED outsideEnv
    \/ RenderStep(RenderThread) /\ UNCHANGED outsideEnv

SpecSync == InitSync /\ [][NextSync]_vars

\* ------------------------------------------------------------------------
\* Claims on the Environment.
\* ------------------------------------------------------------------------
\* C4: a thread that holds Environment::guard in shared mode finds the scene
\* pointer equal to the one it saw when it took the lock, and the scene alive; a
\* replaceScene that is about to delete its old scene has already swapped the
\* pointer away from it, and no shared holder took the lock on that scene.
C4_ReplaceSceneLinearizable ==
    /\ \A t \in guardShared : loc[t].seen = scene /\ scenes[scene].life = "alive"
    /\ \A r \in EnvThreads : loc[r].pc = "rs_delete" =>
          /\ scene # loc[r].old
          /\ \A t \in guardShared : loc[t].seen # loc[r].old
\* A reader holds the shared lock on the new scene while the replacer that
\* installed it has swapped and is about to delete the old one, and another
\* replaceScene is waiting for the lock.
C4_Witness ==
    \E r \in Mutators, t \in EnvThreads :
        /\ loc[r].pc = "rs_delete"
        /\ t \in guardShared
        /\ loc[t].seen = loc[r].new

\* C7: with one caller and an empty scene, the k-th add on a collection of
\* capacity L returns index k-1 and stores its item there while k <= L, and fails
\* leaving the size at L once k > L.
C7_CapacityBoundary ==
    \A c \in AddColls :
        (last[CapThread].op = AddName(c) /\ loc[CapThread].pc = "idle") =>
            LET k == CapCallNo
                data == scenes[scene][c]
            IN  IF k <= Limit(c)
                  THEN /\ last[CapThread].ok
                       /\ last[CapThread].idx = k - 1
                       /\ Len(data) = k
                       /\ data[k] = k
                  ELSE /\ ~last[CapThread].ok
                       /\ Len(data) = Limit(c)
\* The 11th addMaterial has failed with 10 materials stored, after ten successes.
C7_Witness ==
    /\ last[CapThread] = [op |-> "addMaterial", ok |-> FALSE, idx |-> 0]
    /\ loc[CapThread].pc = "idle"
    /\ CapCallNo = limit_materials + 1
    /\ Len(scenes[scene].materials) = limit_materials

\* C8: once every call has returned, each primitive an entity references carries
\* the entity's material and transform index.
C8_PrimitivesFollowEntity ==
    (\A t \in EnvThreads : loc[t].pc = "idle") =>
        \A e \in 1..Len(scenes[scene].entities) :
            LET entity == scenes[scene].entities[e]
            IN  \A k \in 1..Len(entity.primitives) :
                    PtrValid(entity.primitives[k]) =>
                        LET p == scenes[entity.primitives[k].s].primitives[entity.primitives[k].idx]
                        IN  /\ p.material_idx = entity.material_idx
                            /\ p.transform_idx = entity.transform_idx

\* C9: for every collection of a live scene the flag is set exactly when the
\* payload has been written since the flag was last cleared.
C9_DirtyIffWritten ==
    \A s \in SceneIds : scenes[s].life = "alive" =>
        \A c \in Colls : scenes[s].updated[c] <=> written[s][c]

\* C12: every address recorded on an entity of a live scene still designates the
\* element of the primitive vector it was taken from.
C12_ReferencesStable ==
    \A s \in SceneIds : scenes[s].life = "alive" =>
        \A e \in 1..Len(scenes[s].entities) :
            \A k \in 1..Len(scenes[s].entities[e].primitives) :
                PtrValid(scenes[s].entities[e].primitives[k])

\* C13: with one caller, between calls, every primitive an entity owns (the
\* element each recorded address was taken for) carries the entity's material
\* index and the entity's transform index.
C13_SequentialIndices ==
    (loc[CapThread].pc = "idle") =>
        \A e \in 1..Len(scenes[scene].entities) :
            LET entity == scenes[scene].entities[e]
            IN  \A k \in 1..Len(entity.primitives) :
                    LET p == scenes[scene].primitives[entity.primitives[k].idx]
                    IN  /\ p.material_idx = entity.material_idx
                        /\ p.transform_idx = entity.transform_idx

\* C17: when no sync routine is running, a collection of the current scene whose
\* flag is clear and that was not written since the flag was cleared has reached
\* the render side: the launcher was computed from the camera, and the buffers of
\* vertices, transforms and materials start with the collection's payload.
C17_ClearedMeansCopied ==
    (loc[RenderThread].pc = "idle") =>
        /\ (~scenes[scene].updated["camera"] /\ ~written[scene]["camera"])
              => rend.launcher = scenes[scene].camera
        /\ \A c \in {"vertices", "transforms", "materials"} :
              (~scenes[scene].updated[c] /\ ~written[scene][c])
                  => Prefix(rend[c], Len(scenes[scene][c])) = scenes[scene][c]

\* C16: the step in which an add call finds its collection full and returns its
\* failure leaves every scene as it was: contents, sizes and flags of all
\* collections.
C16_FailedAddNoChange ==
    [][(/\ loc[CapThread].pc = "add_body"
        /\ loc'[CapThread].pc = "idle"
        /\ ~last'[CapThread].ok) => scenes' = scenes]_vars

\* C16, its case: addMaterial has failed on the full collection, the renderer's
\* updateScene has run, and the flag it cleared is clear.
C16_Witness ==
    /\ last[CapThread] = [op |-> "addMaterial", ok |-> FALSE, idx |-> 0]
    /\ loc[CapThread].pc = "idle"
    /\ Len(scenes[scene].materials) = limit_materials
    /\ ~scenes[scene].updated["materials"]
    /\ last[RenderThread].op = "updateScene"

\* ------------------------------------------------------------------------
\* SpecPool: the pool and its caller.
\* ------------------------------------------------------------------------
InitPool ==
    /\ \E n \in 1..MaxThreads : ThreadPoolInit(n)
    /\ \E k \in 0..MaxTasks : CallerInit(k)
    /\ EnvInit(0)
    /\ FrameInit(1, 1)
    /\ NucleusInit(0)

WorkerStep(w) ==
    \/ Cycle(w) /\ UNCHANGED callerVars
    \/ RunIncTask(w)

WorkerSpurious ==
    \E w \in Workers : SpuriousWake(w) /\ UNCHANGED callerVars

CallerStep ==
    \/ Enqueue
    \/ EnqueueNotify
    \/ StartWaiting
    \/ FutureWait
    \/ AllWaited

CallerDestroy ==
    \/ Destructor
    \/ DestructorNotify
    \/ DestructorJoin
    \/ DestructorDone

NextPool ==
    \/ \E w \in Workers : WorkerStep(w)
    \/ WorkerSpurious
    \/ CallerStep
    \/ CallerDestroy

SpecPool == InitPool /\ [][NextPool]_vars

\* The threads are scheduled: a worker that can take a step eventually does, and so
\* does the caller inside enqueue and future.wait. Nothing forces the caller to
\* destroy the pool, and nothing forces a spurious wake-up.
FairSpecPool ==
    /\ SpecPool
    /\ \A w \in 1..MaxThreads : WF_vars(w \in Workers /\ WorkerStep(w))
    /\ WF_vars(CallerStep)

\* The same, with a destructor that, once it has set stopping, goes on to its
\* notify_all and its joins.
FairSpecShutdown ==
    /\ FairSpecPool
    /\ WF_vars(DestructorNotify \/ DestructorJoin \/ DestructorDone)

\* ------------------------------------------------------------------------
\* Properties of the thread pool.
\* ------------------------------------------------------------------------
\* C1: K increment tasks enqueued on a pool of N >= 1 workers: no task ever runs
\* twice, once the caller has waited on all K futures the counter is exactly K and
\* every task has run exactly once, and every wait on a future returns.
C1_Exhaustive ==
    /\ [](\A t \in TaskIds : ran[t] <= 1)
    /\ [](cpc = "waited" => (counter = nTasks /\ \A t \in TaskIds : ran[t] = 1))
    /\ \A i \in 1..MaxTasks : (cpc = "wait" /\ ci = i) ~> ~(cpc = "wait" /\ ci = i)

\* C1, its case: the caller has waited on the futures of at least two tasks run by
\* a pool of at least two workers.
C1_Witness ==
    cpc = "waited" /\ nTasks >= 2 /\ n_threads >= 2 /\ counter = nTasks

\* C2: no worker has left its loop while the queue holds a task, and when the
\* destructor's joins have completed every task that was queued when stopping was
\* set has been executed.
C2_DrainOnShutdown ==
    /\ \A w \in Workers : wstate[w] = "exited" => tasks = <<>>
    /\ cpc = "destroyed" => \A t \in queuedAtStop : ran[t] = 1

\* C2, its case: the pool was destroyed with at least two tasks still queued.
C2_Witness ==
    cpc = "destroyed" /\ Cardinality(queuedAtStop) >= 2

\* Task t has left the queue: a worker holds it or it has run.
Dequeued(t) == ran[t] > 0 \/ \E w \in Workers : wtask[w] = IncTask(t)

\* C14: tasks leave the queue in the order their enqueues returned (the caller
\* enqueues task 1, then 2, ...): whenever a task has been dequeued, no task
\* enqueued before it is still in the queue.
C14_FifoDequeue ==
    \A b \in TaskIds : Dequeued(b) => \A i \in 1..Len(tasks) : tasks[i].id > b

\* C14, its case: two workers hold tasks at the same time while a task enqueued
\* after both is still queued.
C14_Witness ==
    \E w1, w2 \in Workers :
        /\ w1 # w2
        /\ wtask[w1].kind = "inc" /\ wtask[w2].kind = "inc"
        /\ tasks # <<>>

\* ------------------------------------------------------------------------
\* Render::renderFrame: one frame, from acquisition to the final fence wait.
\* ------------------------------------------------------------------------
Repeat(x, n) == [i \in 1..n |-> x]

RECURSIVE Flatten(_)
Flatten(seqs) == IF seqs = <<>> THEN <<>> ELSE Head(seqs) \o Flatten(Tail(seqs))

\* Render::renderImage, the commands recorded into c_buffers[1]: one ray
\* generation, three intersects for each sample, one post-process.
RenderImageCommands(aa) ==
    <<"ray_gen">>
    \o Flatten(Repeat(<<"intersect", "intersect", "intersect">>, SampleCount(aa)))
    \o <<"post_process">>

\* Render::renderImage, the submits handed to the queue: submits[0] runs
\* c_buffers[1] between main_semaphores[0] and main_semaphores[1]; the remaining
\* elements of the resized vector stay as constructed.
RenderImageSubmits(cmds) ==
    [i \in 1..n_submits |->
        IF i = 1
          THEN [waits |-> {MainSemaphore(0)}, cmds |-> cmds,
                signals |-> {MainSemaphore(1)}, fence |-> FALSE]
          ELSE EmptySubmit]

\* recordGeneralTransition: waits on nothing, signals main_semaphores[0].
GeneralTransitionSubmit ==
    [waits |-> {}, cmds |-> <<"general_transition">>,
     signals |-> {MainSemaphore(0)}, fence |-> FALSE]

\* recordPresentTransition, submitted with main_fence: waits on
\* main_semaphores[1], signals main_semaphores[2].
PresentTransitionSubmit ==
    [waits |-> {MainSemaphore(1)}, cmds |-> <<"present_transition">>,
     signals |-> {MainSemaphore(2)}, fence |-> TRUE]

\* compute.queue.submit(n, submits, fence): the batch joins the compute queue in
\* order.
QueueSubmit(batch) == dev' = [dev EXCEPT !.queue = @ \o batch]

\* A call of Render::renderFrame begins; the counts kept per call start over.
CallRenderFrame ==
    /\ frame.pc = "idle"
    /\ frame.calls < MaxFrames
    /\ frame' = [frame EXCEPT !.pc = "acquire", !.submits = <<>>, !.synced = FALSE,
                              !.calls = @ + 1, !.result = "none", !.timeouts = 0]
    /\ dev' = [dev EXCEPT !.signalled = [s \in DOMAIN @ |-> 0],
                          !.waited = [s \in DOMAIN @ |-> 0],
                          !.executed = <<>>]
    /\ UNCHANGED <<anti_aliasing, ray_depth>>

\* acquireframe(nullptr, main_fence, 0, frame_idx): with no image ready it returns
\* false and renderFrame returns false; otherwise the fence is signalled once the
\* image can be used.
AcquireFrame ==
    /\ frame.pc = "acquire"
    /\ \/ /\ frame' = [frame EXCEPT !.pc = "idle", !.result = "false"]
          /\ UNCHANGED dev
       \/ /\ frame' = [frame EXCEPT !.pc = "wait_acquire"]
          /\ dev' = [dev EXCEPT !.acquiring = TRUE]
    /\ UNCHANGED <<anti_aliasing, ray_depth>>

\* Render::waitForMainFence(): returns once the fence is signalled, and resets it.
WaitForMainFence(from, to, result) ==
    /\ frame.pc = from
    /\ dev.fence
    /\ dev' = [dev EXCEPT !.fence = FALSE]
    /\ frame' = [frame EXCEPT !.pc = to, !.result = result]
    /\ UNCHANGED <<anti_aliasing, ray_depth>>

\* Render::waitForMainFence(): a waitForFences that returns eTimeout is followed
\* by another waitForFences on the same fence (the while loop).
WaitTimedOut ==
    /\ frame.pc \in {"wait_acquire", "wait_frame"}
    /\ ~dev.fence
    /\ frame.timeouts < MaxTimeouts
    /\ frame' = [frame EXCEPT !.timeouts = @ + 1]
    /\ UNCHANGED <<anti_aliasing, ray_depth, dev>>

\* Render::updateEnvironment: the two update jobs have run and were waited for.
UpdateEnvironment ==
    /\ frame.pc = "update_env"
    /\ frame' = [frame EXCEPT !.pc = "general", !.synced = TRUE]
    /\ UNCHANGED <<anti_aliasing, ray_depth, dev>>

\* Render::updateImageLayoutToGeneral: record into c_buffers[0], submit, no fence.
UpdateImageLayoutToGeneral ==
    /\ frame.pc = "general"
    /\ QueueSubmit(<<GeneralTransitionSubmit>>)
    /\ frame' = [frame EXCEPT !.pc = "render",
                              !.c_buffers[0] = GeneralTransitionSubmit.cmds,
                              !.submits = @ \o <<GeneralTransitionSubmit>>]
    /\ UNCHANGED <<anti_aliasing, ray_depth>>

\* Render::renderImage: record c_buffers[1] and submit n_submits submits, no fence.
RenderImage ==
    /\ frame.pc = "render"
    /\ LET cmds == RenderImageCommands(anti_aliasing)
       IN  /\ QueueSubmit(RenderImageSubmits(cmds))
           /\ frame' = [frame EXCEPT !.pc = "present",
                                     !.c_buffers[1] = cmds,
                                     !.submits = @ \o RenderImageSubmits(cmds)]
    /\ UNCHANGED <<anti_aliasing, ray_depth>>

\* Render::updateImageLayoutToPresent: record into c_buffers[2], submit with
\* main_fence.
UpdateImageLayoutToPresent ==
    /\ frame.pc = "present"
    /\ QueueSubmit(<<PresentTransitionSubmit>>)
    /\ frame' = [frame EXCEPT !.pc = "display",
                              !.c_buffers[2] = PresentTransitionSubmit.cmds,
                              !.submits = @ \o <<PresentTransitionSubmit>>]
    /\ UNCHANGED <<anti_aliasing, ray_depth>>

\* displayFrame(1, &main_semaphores[2], frame_idx, present.queue): the present
\* request waits on main_semaphores[2].
DisplayFrameNoWait ==
    /\ frame.pc = "display"
    /\ dev' = [dev EXCEPT !.present = Append(@, {})]
    /\ frame' = [frame EXCEPT !.pc = "wait_frame"]
    /\ UNCHANGED <<anti_aliasing, ray_depth>>
DisplayFrame ==
    /\ frame.pc = "display"
    /\ dev' = [dev EXCEPT !.present = Append(@, {MainSemaphore(2)})]
    /\ frame' = [frame EXCEPT !.pc = "wait_frame"]
    /\ UNCHANGED <<anti_aliasing, ray_depth>>

\* The steps of Render::renderFrame.
RenderFrame ==
    \/ AcquireFrame
    \/ WaitForMainFence("wait_acquire", "update_env", "none")
    \/ WaitTimedOut
    \/ UpdateEnvironment
    \/ UpdateImageLayoutToGeneral
    \/ RenderImage
    \/ UpdateImageLayoutToPresent
    \/ DisplayFrame
    \/ WaitForMainFence("wait_frame", "idle", "true")

\* The device makes the acquired image available: the fence is signalled.
DeviceAcquire ==
    /\ dev.acquiring
    /\ dev' = [dev EXCEPT !.acquiring = FALSE, !.fence = TRUE]
    /\ UNCHANGED <<anti_aliasing, ray_depth, frame>>

\* The semaphores after the waits of a submission were satisfied and its signals
\* were made.
SemaphoresAfter(sem, waits, signals) ==
    [s \in DOMAIN sem |-> IF s \in signals THEN TRUE
                          ELSE IF s \in waits THEN FALSE ELSE sem[s]]
Counted(count, which) ==
    [s \in DOMAIN count |-> IF s \in which THEN count[s] + 1 ELSE count[s]]

\* The compute queue runs its oldest submission once every semaphore it waits on
\* is signalled: the waits are consumed, the commands run, the signals and the
\* fence of the submission are made.
DeviceExecute ==
    /\ dev.queue # <<>>
    /\ LET sub == Head(dev.queue)
       IN  /\ \A s \in sub.waits : dev.sem[s]
           /\ dev' = [dev EXCEPT !.queue = Tail(@),
                                 !.sem = SemaphoresAfter(@, sub.waits, sub.signals),
                                 !.waited = Counted(@, sub.waits),
                                 !.signalled = Counted(@, sub.signals),
                                 !.executed = @ \o sub.cmds,
                                 !.fence = @ \/ sub.fence]
    /\ UNCHANGED <<anti_aliasing, ray_depth, frame>>

\* The present queue shows the image once the semaphore of the request is
\* signalled.
DevicePresent ==
    /\ dev.present # <<>>
    /\ \A s \in Head(dev.present) : dev.sem[s]
    /\ dev' = [dev EXCEPT !.present = Tail(@),
                          !.sem = SemaphoresAfter(@, Head(dev.present), {}),
                          !.waited = Counted(@, Head(dev.present)),
                          !.presented = @ + 1]
    /\ UNCHANGED <<anti_aliasing, ray_depth, frame>>

InitFrame ==
    /\ ThreadPoolInit(1)
    /\ CallerInit(0)
    /\ EnvInit(0)
    /\ \E aa \in 0..MaxSamples, depth \in 1..MaxDepth : FrameInit(aa, depth)
    /\ NucleusInit(0)

NextFrame ==
    \/ CallRenderFrame /\ UNCHANGED outsideFrame
    \/ RenderFrame /\ UNCHANGED outsideFrame
    \/ DeviceAcquire /\ UNCHANGED outsideFrame
    \/ DeviceExecute /\ UNCHANGED outsideFrame
    \/ DevicePresent /\ UNCHANGED outsideFrame

SpecFrame == InitFrame /\ [][NextFrame]_vars

\* ------------------------------------------------------------------------
\* Claims on the frame.
\* ------------------------------------------------------------------------
\* A call of renderFrame has returned true and the device has nothing left to do.
FrameComplete ==
    /\ frame.pc = "idle"
    /\ frame.result = "true"
    /\ dev.queue = <<>>
    /\ dev.present = <<>>

\* The stages of section 4.4 the commands stand for: the transition to general is
\* the pre-process stage's, the transition to present the post-process stage's.
StageOf(cmd) ==
    CASE cmd = "general_transition" -> <<"pre_process">>
      [] cmd = "present_transition" -> <<>>
      [] OTHER -> <<cmd>>

\* The stages of the frame in the order they ran: the delta-sync, then what the
\* compute queue executed.
StagesRun ==
    (IF frame.synced THEN <<"delta_sync">> ELSE <<>>)
    \o Flatten([i \in 1..Len(dev.executed) |-> StageOf(dev.executed[i])])

\* The chain required for one sample and bounce depth k.
StagesRequired(k) ==
    <<"delta_sync", "pre_process", "ray_gen">>
    \o Flatten(Repeat(<<"intersect", "scatter">>, k))
    \o <<"post_process">>

\* C5: with one sample and bounce depth k, a finished frame has run exactly
\* delta-sync, pre-process, ray-generation, k times (intersect, shade/scatter),
\* post-process.
C5_StageSequence ==
    (FrameComplete /\ SampleCount(anti_aliasing) = 1) => StagesRun = StagesRequired(ray_depth)

\* C6: in a finished frame every submission but the first waits on exactly the
\* one semaphore its predecessor signals, the ray generation of each sample after
\* the first waits on the scatter semaphore of the sample before, and every
\* semaphore was signalled once and waited on once.
C6_SingleChain ==
    FrameComplete =>
        /\ \A i \in 2..Len(frame.submits) :
              /\ Cardinality(frame.submits[i].waits) = 1
              /\ frame.submits[i].waits = frame.submits[i - 1].signals
        /\ \A s \in 1..(SampleCount(anti_aliasing) - 1) :
              \E i \in 1..Len(frame.submits) :
                  /\ frame.submits[i].cmds = <<"ray_gen">>
                  /\ frame.submits[i].waits = {SampleSemaphore(s - 1, WorkTypes_n - 1)}
        /\ \A s \in Semaphores(anti_aliasing) :
              dev.signalled[s] = 1 /\ dev.waited[s] = 1

\* C15: once the present request of the current call of renderFrame has been
\* carried out (every call so far has had its image presented), the compute queue
\* has run the whole chain of that call, ending with post-process and the
\* transition to the present layout.
C15_PresentAfterTerminal ==
    (frame.calls > 0 /\ dev.presented = frame.calls) =>
        dev.executed = <<"general_transition">>
                       \o RenderImageCommands(anti_aliasing)
                       \o <<"present_transition">>

\* C15, its case: the image of the second call was presented while renderFrame
\* was still in its final fence wait.
C15_Witness ==
    /\ frame.calls = 2
    /\ dev.presented = 2
    /\ frame.pc = "wait_frame"

\* ------------------------------------------------------------------------
\* Nucleus::renderFrame, the render task a pool worker runs.
\* ------------------------------------------------------------------------
RenderTask(id) == [kind |-> "render", id |-> id]
JobTask(id) == [kind |-> "job", id |-> id]

\* Worker w is inside a task of this kind, at this position.
Inside(w, kind, pc) ==
    /\ wstate[w] = "task"
    /\ wtask[w].kind = kind
    /\ wpc[w].pc = pc

\* The task of worker w ends: the packaged_task makes its future ready (with the
\* value or with the exception) and cycle() goes back to the lock.
TaskEnds(w) ==
    /\ run' = [run EXCEPT !.ready = @ \cup {wtask[w].id}]
    /\ wstate' = [wstate EXCEPT ![w] = "lock"]
    /\ wtask' = [wtask EXCEPT ![w] = NoTask]
    /\ wpc' = [wpc EXCEPT ![w] = NoWork]

\* The task of worker w throws: the packaged_task catches the exception, stores
\* it in the shared state of its future, which becomes ready, and returns to
\* cycle(); an exception that left the task would leave cycle() and the thread
\* with it.
TaskThrowsUncaught(w) ==
    /\ run' = [run EXCEPT !.thrower = w, !.issuedAtThrow = run.issued]
    /\ wstate' = [wstate EXCEPT ![w] = "exited"]
    /\ wtask' = [wtask EXCEPT ![w] = NoTask]
    /\ wpc' = [wpc EXCEPT ![w] = NoWork]
TaskThrows(w) ==
    /\ run' = [run EXCEPT !.ready = @ \cup {wtask[w].id},
                          !.thrower = w, !.issuedAtThrow = run.issued]
    /\ wstate' = [wstate EXCEPT ![w] = "lock"]
    /\ wtask' = [wtask EXCEPT ![w] = NoTask]
    /\ wpc' = [wpc EXCEPT ![w] = NoWork]

\* dispatchFrame, the acquisition: acquireframe(nullptr, main_fence, 0, frame_idx).
\* With no image ready dispatchFrame returns false.
DfAcquire(w) ==
    /\ Inside(w, "render", "none")
    /\ \/ /\ run.fails < MaxAcquireFails
          /\ run' = [run EXCEPT !.fails = @ + 1]
          /\ wpc' = [wpc EXCEPT ![w].pc = "rf_failed"]
          /\ UNCHANGED dev
       \/ /\ wpc' = [wpc EXCEPT ![w].pc = "df_wait"]
          /\ dev' = [dev EXCEPT !.acquiring = TRUE]
          /\ UNCHANGED run
    /\ UNCHANGED <<poolVars, nucleus>>

\* device.waitForFences on main_fence returns success.
FenceWait(w, kind, from, to) ==
    /\ Inside(w, kind, from)
    /\ dev.fence
    /\ wpc' = [wpc EXCEPT ![w].pc = to]
    /\ UNCHANGED <<poolVars, nucleus, run, dev>>

\* device.resetFences on main_fence.
FenceReset(w, kind, from, to) ==
    /\ Inside(w, kind, from)
    /\ dev' = [dev EXCEPT !.fence = FALSE]
    /\ wpc' = [wpc EXCEPT ![w].pc = to]
    /\ UNCHANGED <<poolVars, nucleus, run>>

\* Render::updateEnvironment: core_nucleus.enqueue of one update job, up to the end
\* of the locked block of enqueue.
UeEnqueue(w) ==
    /\ Inside(w, "render", "ue_enqueue")
    /\ tasks' = QueuePush(tasks, JobTask(run.issued + 1))
    /\ run' = [run EXCEPT !.issued = @ + 1]
    /\ wpc' = [wpc EXCEPT ![w].pc = "ue_notify", ![w].jobs = Append(@, run.issued + 1)]
    /\ UNCHANGED <<n_threads, stopping, wstate, wtask, nucleus, dev>>

\* Render::updateEnvironment: notify_one of that enqueue; after the second job the
\* wait loop begins.
UeNotify(w) ==
    /\ Inside(w, "render", "ue_notify")
    /\ NotifyOne
    /\ wpc' = [wpc EXCEPT ![w].pc = IF Len(wpc[w].jobs) < 2 THEN "ue_enqueue" ELSE "ue_wait"]
    /\ UNCHANGED <<n_threads, stopping, tasks, wtask, nucleus, run, dev>>

\* Render::updateEnvironment: jobs[i].wait() returns once the job has run.
UeWait(w) ==
    /\ Inside(w, "render", "ue_wait")
    /\ Head(wpc[w].jobs) \in run.ready
    /\ wpc' = [wpc EXCEPT ![w].jobs = Tail(@),
                          ![w].pc = IF Len(wpc[w].jobs) = 1 THEN "df_submit" ELSE "ue_wait"]
    /\ UNCHANGED <<poolVars, nucleus, run, dev>>

\* The submissions of one frame taken as one: the chain of
\* updateImageLayoutToGeneral, renderImage and updateImageLayoutToPresent, which
\* ends by signalling main_fence.
FrameSubmit == [waits |-> {}, cmds |-> <<>>, signals |-> {}, fence |-> TRUE]

\* dispatchFrame, the submissions: updateImageLayoutToGeneral, renderImage,
\* updateImageLayoutToPresent and displayFrame; dispatchFrame returns true.
DfSubmit(w) ==
    /\ Inside(w, "render", "df_submit")
    /\ dev' = [dev EXCEPT !.queue = Append(@, FrameSubmit)]
    /\ wpc' = [wpc EXCEPT ![w].pc = "rf_wait", ![w].dispatched = TRUE]
    /\ UNCHANGED <<poolVars, nucleus, run>>

\* renderFrame: `if(!render.dispatchFrame()) { rendering = false; }`, and on to
\* the fence wait.
RfFailed(w) ==
    /\ Inside(w, "render", "rf_failed")
    /\ nucleus' = [nucleus EXCEPT !.rendering = FALSE]
    /\ wpc' = [wpc EXCEPT ![w].pc = "rf_wait"]
    /\ UNCHANGED <<poolVars, run, dev>>

\* waitForMainFence(timeout) returns false: the fence was not signalled in time.
RfTimeout(w) ==
    /\ Inside(w, "render", "rf_wait")
    /\ ~dev.fence
    /\ run.timeouts < MaxTimeouts
    /\ run' = [run EXCEPT !.timeouts = @ + 1]
    /\ wpc' = [wpc EXCEPT ![w].pc = "rf_timeout"]
    /\ UNCHANGED <<poolVars, nucleus, dev>>

\* renderFrame, the timeout branch: rendering = false; frame_counter =
\* frame_limit; throw.
RfFatal(w) ==
    /\ Inside(w, "render", "rf_timeout")
    /\ nucleus' = [nucleus EXCEPT !.rendering = FALSE, !.frame_counter = nucleus.frame_limit]
    /\ TaskThrows(w)
    /\ UNCHANGED <<n_threads, stopping, tasks, dev>>

\* renderFrame, the else branch: rendering = false.
RfClear(w) ==
    /\ Inside(w, "render", "rf_clear")
    /\ nucleus' = [nucleus EXCEPT !.rendering = FALSE]
    /\ wpc' = [wpc EXCEPT ![w].pc = "rf_increment"]
    /\ UNCHANGED <<poolVars, run, dev>>

\* frameCounterIncrement, and renderFrame returns.
RfIncrement(w) ==
    /\ Inside(w, "render", "rf_increment")
    /\ nucleus' = [nucleus EXCEPT !.frame_counter =
                      IF nucleus.frame_limit # 0 THEN @ + 1 ELSE @]
    /\ TaskEnds(w)
    /\ UNCHANGED <<n_threads, stopping, tasks, dev>>

\* An update job (updateChainImageSet, updateRayLauncher) runs to its end.
RunJob(w) ==
    /\ Inside(w, "job", "none")
    /\ TaskEnds(w)
    /\ UNCHANGED <<n_threads, stopping, tasks, nucleus, dev>>

\* The steps of a render task that do not depend on a timeout.
RenderTaskStep(w) ==
    \/ DfAcquire(w)
    \/ FenceWait(w, "render", "df_wait", "df_reset")
    \/ FenceReset(w, "render", "df_reset", "ue_enqueue")
    \/ UeEnqueue(w)
    \/ UeNotify(w)
    \/ UeWait(w)
    \/ DfSubmit(w)
    \/ RfFailed(w)
    \/ FenceWait(w, "render", "rf_wait", "rf_reset")
    \/ FenceReset(w, "render", "rf_reset", "rf_clear")
    \/ RfFatal(w)
    \/ RfClear(w)
    \/ RfIncrement(w)

\* ------------------------------------------------------------------------
\* Nucleus::run, with the window's close flag never set.
\* ------------------------------------------------------------------------
\* run(max_frames) begins: shouldWindowClose() is false; frameCounterReset.
RunReset ==
    /\ run.pc = "idle"
    /\ nucleus' = [nucleus EXCEPT !.frame_limit = run.max_frames, !.frame_counter = 0]
    /\ run' = [run EXCEPT !.pc = "loop"]
    /\ UNCHANGED <<poolVars, wpc, dev>>

\* The loop test `while(!ui.shouldWindowClose())`, poolEvents and
\* `if(!isRendering())`.
RunLoop ==
    /\ run.pc = "loop"
    /\ run' = [run EXCEPT !.pc = IF run.close THEN "final"
                                 ELSE IF nucleus.rendering THEN "check"
                                 ELSE "set_rendering"]
    /\ UNCHANGED <<poolVars, nucleus, wpc, dev>>

\* `rendering = true;` under rendering_guard.
RunSetRendering ==
    /\ run.pc = "set_rendering"
    /\ nucleus' = [nucleus EXCEPT !.rendering = TRUE]
    /\ run' = [run EXCEPT !.pc = "enqueue"]
    /\ UNCHANGED <<poolVars, wpc, dev>>

\* `render_task = enqueue(...)`, up to the end of the locked block of enqueue.
RunEnqueue ==
    /\ run.pc = "enqueue"
    /\ tasks' = QueuePush(tasks, RenderTask(run.issued + 1))
    /\ run' = [run EXCEPT !.pc = "notify", !.issued = @ + 1, !.render_task = run.issued + 1]
    /\ UNCHANGED <<n_threads, stopping, wstate, wtask, nucleus, wpc, dev>>

\* notify_one of that enqueue.
RunNotify ==
    /\ run.pc = "notify"
    /\ NotifyOne
    /\ run' = [run EXCEPT !.pc = "check"]
    /\ UNCHANGED <<n_threads, stopping, tasks, wtask, nucleus, wpc, dev>>

\* frameCounterCheck: frame_limit != 0 and frame_limit <= frame_counter.
FrameCounterCheckAnyLimit == nucleus.frame_limit <= nucleus.frame_counter
FrameCounterCheck == nucleus.frame_limit # 0 /\ nucleus.frame_limit <= nucleus.frame_counter

\* `if(frameCounterCheck()) { break; }`
RunCheck ==
    /\ run.pc = "check"
    /\ run' = [run EXCEPT !.pc = IF FrameCounterCheck THEN "final" ELSE "loop"]
    /\ UNCHANGED <<poolVars, nucleus, wpc, dev>>

\* After the loop: `if(isRendering()) { render_task.wait(); }`
RunFinal ==
    /\ run.pc = "final"
    /\ run' = [run EXCEPT !.pc = IF nucleus.rendering THEN "wait_task" ELSE "returned"]
    /\ UNCHANGED <<poolVars, nucleus, wpc, dev>>

\* render_task.wait() returns once the task has ended.
RunWaitTask ==
    /\ run.pc = "wait_task"
    /\ run.render_task \in run.ready
    /\ run' = [run EXCEPT !.pc = "returned"]
    /\ UNCHANGED <<poolVars, nucleus, wpc, dev>>

\* The steps of the thread inside run.
RunStep ==
    \/ RunReset
    \/ RunLoop
    \/ RunSetRendering
    \/ RunEnqueue
    \/ RunNotify
    \/ RunCheck
    \/ RunFinal
    \/ RunWaitTask

\* The steps of the device.
DeviceStep ==
    \/ DeviceAcquire
    \/ DeviceExecute
    \/ DevicePresent

\* Pool sizes tried: std::thread::hardware_concurrency() workers.
InitRun ==
    /\ \E n \in 1..MaxRunThreads : ThreadPoolInit(n)
    /\ CallerInit(0)
    /\ EnvInit(0)
    /\ FrameInit(1, 1)
    /\ \E max_frames \in 1..MaxFrames : NucleusInit(max_frames)

\* A pool worker: cycle() and the task it runs.
RunWorkerStep(w) ==
    \/ Cycle(w) /\ UNCHANGED callerVars
    \/ RenderTaskStep(w) /\ UNCHANGED outsideRun
    \/ RunJob(w) /\ UNCHANGED outsideRun

NextRun ==
    \/ \E w \in Workers : RunWorkerStep(w)
    \/ \E w \in Workers : SpuriousWake(w) /\ UNCHANGED callerVars
    \/ \E w \in Workers : RfTimeout(w) /\ UNCHANGED outsideRun
    \/ RunStep /\ UNCHANGED outsideRun
    \/ DeviceStep /\ UNCHANGED outsideFrame

SpecRun == InitRun /\ [][NextRun]_vars

\* Every thread that can take a step eventually takes one; a wait on the fence
\* need not time out and a condition variable need not wake up spuriously.
FairSpecRun ==
    /\ SpecRun
    /\ \A w \in 1..MaxRunThreads : WF_vars(w \in Workers /\ RunWorkerStep(w))
    /\ WF_vars(RunStep /\ UNCHANGED outsideRun)
    /\ WF_vars(DeviceStep /\ UNCHANGED outsideFrame)

\* ------------------------------------------------------------------------
\* SpecLoop: run(0), the unlimited run, with a window that may be closed.
\* ------------------------------------------------------------------------
\* The user closes the window while run is in its loop.
WindowClose ==
    /\ run.pc \notin {"idle", "returned"}
    /\ ~run.close
    /\ run' = [run EXCEPT !.close = TRUE]
    /\ UNCHANGED <<poolVars, nucleus, wpc, dev>>

InitLoop ==
    /\ \E n \in 1..MaxRunThreads : ThreadPoolInit(n)
    /\ CallerInit(0)
    /\ EnvInit(0)
    /\ FrameInit(1, 1)
    /\ NucleusInit(0)

\* The run is followed until MaxIssued tasks have been enqueued.
NextLoop ==
    \/ \E w \in Workers : RunWorkerStep(w)
    \/ \E w \in Workers : SpuriousWake(w) /\ UNCHANGED callerVars
    \/ \E w \in Workers : RfTimeout(w) /\ UNCHANGED outsideRun
    \/ /\ run.pc = "enqueue" => run.issued < MaxIssued
       /\ RunStep
       /\ UNCHANGED outsideRun
    \/ DeviceStep /\ UNCHANGED outsideFrame
    \/ WindowClose /\ UNCHANGED outsideRun

SpecLoop == InitLoop /\ [][NextLoop]_vars

\* ------------------------------------------------------------------------
\* Claims on the frame loop.
\* ------------------------------------------------------------------------
\* The workers inside a render task, and the render tasks waiting in the queue.
ActiveRenderTasks == {w \in Workers : wstate[w] = "task" /\ wtask[w].kind = "render"}
QueuedRenderTasks == {i \in 1..Len(tasks) : tasks[i].kind = "render"}

\* The positions of renderFrame after its wait on the frame's fence succeeded.
FenceObserved == {"rf_reset", "rf_clear", "rf_increment"}

\* C3: no two render tasks are active at a time, and no render task is queued
\* while an earlier one is still running without having observed its fence.
C3_OneFrameInFlight ==
    /\ Cardinality(ActiveRenderTasks) <= 1
    /\ Cardinality(QueuedRenderTasks) <= 1
    /\ QueuedRenderTasks # {} =>
          \A w \in ActiveRenderTasks : wpc[w].pc \in FenceObserved

\* C10: with the close flag never set, run(N) for N > 0 returns, and when it has
\* returned frame_counter >= N.
C10_RunTerminates ==
    /\ <>(run.pc = "returned")
    /\ [](run.pc = "returned" => nucleus.frame_counter >= run.max_frames)

\* C11: once the timeout branch of a render task has run, run does not return as
\* after a finished run: the error reaches its caller.
C11_TimeoutReported ==
    (run.timeouts > 0 /\ \A w \in Workers : wpc[w].pc # "rf_timeout")
        => run.pc # "returned"

\* C18: a render task whose acquisition found no image does not go on to wait on
\* the fence: every task in the fence wait of renderFrame has dispatched a frame.
C18_NoWaitWithoutFrame ==
    \A w \in Workers : Inside(w, "render", "rf_wait") => wpc[w].dispatched

\* C19: a render task that reaches frameCounterIncrement has acquired and
\* dispatched a frame (and its wait on the fence succeeded).
C19_IncrementOnlyForFrames ==
    \A w \in Workers : Inside(w, "render", "rf_increment") => wpc[w].dispatched

\* C20: in run(0) the loop is left only with the window's close flag set,
\* whatever the frame counter is.
C20_UnlimitedStopsOnClose ==
    (nucleus.frame_limit = 0 /\ run.pc \in {"final", "wait_task", "returned"})
        => run.close

\* C20, its case: run(0) has returned on the close flag after a whole frame (the
\* render task and its two update jobs) had finished.
C20_Witness ==
    /\ run.pc = "returned"
    /\ run.max_frames = 0
    /\ run.close
    /\ Cardinality(run.ready) >= 3

\* C21: the close flag stops run only between frames: when run has returned, no
\* render task is still waiting for a frame it dispatched (every dispatched frame
\* had its fence observed before run returned).
C21_CloseBetweenFrames ==
    (run.pc = "returned") =>
        \A w \in Workers :
            (wstate[w] = "task" /\ wtask[w].kind = "render" /\ wpc[w].dispatched)
                => wpc[w].pc \in FenceObserved

\* ------------------------------------------------------------------------
\* Claims on concurrent calls into the Environment.
\* ------------------------------------------------------------------------
\* The threads inside newEntity whose transform is added and whose entity is not
\* yet.
BetweenAdds == {t \in Mutators : loc[t].op = "newEntity" /\ loc[t].coll = "entities"}

\* C22: under concurrent newEntity calls, every transform of the scene belongs to
\* an entity stored or about to be stored; the addTransform of a call appends a
\* default transform and hands its index on; a call that succeeds has appended an
\* entity with that transform index and the material index passed, at the index
\* it returns; a call that fails does so in addTransform and changes nothing.
C22_NewEntityAtomic ==
    /\ [](Len(scenes[scene].transforms) =
              Len(scenes[scene].entities) + Cardinality(BetweenAdds))
    /\ [][\A t \in Mutators :
            /\ (loc[t].op = "newEntity" /\ loc[t].coll = "transforms"
                    /\ loc'[t].coll = "entities") =>
                  /\ scenes'[scene].transforms =
                         Append(scenes[scene].transforms, NewTransform)
                  /\ loc'[t].item.transform_idx = Len(scenes[scene].transforms)
            /\ (loc[t].op = "newEntity" /\ loc'[t].pc = "idle") =>
                  IF last'[t].ok
                    THEN /\ loc[t].coll = "entities"
                         /\ last'[t].idx = Len(scenes[scene].entities)
                         /\ scenes'[scene].entities =
                                Append(scenes[scene].entities,
                                       [transform_idx |-> loc[t].item.transform_idx,
                                        material_idx |-> loc[t].m,
                                        primitives |-> <<>>])
                    ELSE /\ loc[t].coll = "transforms"
                         /\ scenes' = scenes]_vars

\* C22, its case: two calls raced for the last places (the entity stored last
\* holds the transform added before the other's), and a later call has failed on
\* the full scene.
C22_Witness ==
    /\ \A t \in Mutators : loc[t].pc = "idle"
    /\ \E t \in Mutators : last[t] = [op |-> "newEntity", ok |-> FALSE, idx |-> 0]
    /\ Len(scenes[scene].entities) = limit_entities
    /\ scenes[scene].entities[limit_entities].transform_idx = limit_entities - 2

\* The positions at which a thread acquires or holds a collection mutex of the
\* scene and reads or writes the collection.
ScenePcs ==
    {"add_lock", "add_body", "eap1_lock", "eap1_body", "eap3_lock_e", "eap3_lock_p",
     "eap3_body", "em_lock_e", "em_set", "em_lock_p", "em_body", "et_lock_e",
     "et_lock_t", "et_body", "cw_lock", "cw_body", "urs_lock", "urs_body",
     "url_lock", "url_body", "us_lock", "us_body"}

\* The threads inside the scene.
InScene == {t \in EnvThreads : loc[t].pc \in ScenePcs}

\* C23: every mutator and every sync routine inside the scene holds
\* Environment::guard in shared mode, taken on the scene that is current; the
\* thread at the pointer swap of replaceScene holds the guard exclusively, and
\* while it does no thread is inside the scene or holds the guard shared.
C23_SharedAccessExclusiveSwap ==
    /\ \A t \in InScene : t \in guardShared /\ loc[t].seen = scene
    /\ \A s \in SceneIds, c \in Colls : cmutex[s][c] # NoThread => cmutex[s][c] \in guardShared
    /\ \A r \in EnvThreads : loc[r].pc = "rs_swap" => guardExcl = r
    /\ guardExcl # NoThread => (guardShared = {} /\ InScene = {})

\* C23, its case: two mutators and the renderer are inside the scene at the same
\* time, each in the block under the mutex of a different collection.
C23_Witness ==
    /\ InScene = EnvThreads
    /\ loc[RenderThread].pc = "us_body"
    /\ \A t \in Mutators : loc[t].pc \in {"add_body", "cw_body"}
    /\ loc[1].coll # loc[2].coll

\* The positions of an add function.
AddPcs == {"add_shared", "add_lock", "add_body"}

\* C24: while a thread is inside an add function holding the mutex of its
\* collection, a thread in an add on a different collection can take its next
\* step at every position of the call, unless a third thread holds the mutex of
\* that other collection: it never waits for the first.
C24_UnrelatedAddsIndependent ==
    \A a \in Mutators, b \in Mutators :
        (/\ a # b
         /\ loc[a].pc = "add_body"
         /\ loc[b].pc \in AddPcs
         /\ loc[b].coll # loc[a].coll)
            => \/ ENABLED Add(b)
               \/ cmutex[scene][loc[b].coll] \in EnvThreads \ {a, b}

\* C24, its case: one thread is inside addVertex under the vertices mutex while
\* another is inside addMaterial under the materials mutex.
C24_Witness ==
    \E a \in Mutators, b \in Mutators :
        /\ loc[a].op = "newVertex" /\ loc[a].pc = "add_body"
        /\ loc[b].op = "newMaterial" /\ loc[b].pc = "add_body"

\* The collections whose payload or flag the block at the position of thread t
\* reads or writes.
Accessed(t) ==
    CASE loc[t].pc \in {"add_body", "us_body"} -> {loc[t].coll}
      [] loc[t].pc \in {"eap1_body", "eap3_body", "em_set"} -> {"entities"}
      [] loc[t].pc = "em_body" -> {"entities", "primitives"}
      [] loc[t].pc = "et_body" -> {"entities", "transforms"}
      [] loc[t].pc \in {"cw_body", "url_body"} -> {"camera"}
      [] loc[t].pc = "urs_body" -> {"primitives"}
      [] OTHER -> {}

C26_LoadFailureKeepsAdded ==
    [][\A t \in Mutators :
          (loc[t].load.on /\ loc'[t].pc = "idle" /\ ~last'[t].ok) =>
              LET ld == loc[t].load
                  sc == scenes'[scene]
                  owned == sc.entities[loc[t].e].primitives
              IN  /\ scenes' = scenes
                  /\ Len(sc.vertices) = ld.v0 + ld.nv
                  /\ Len(sc.primitives) = ld.p0 + ld.np
                  /\ Len(owned) = ld.ep0 + ld.np
                  /\ \A k \in 1..ld.np : owned[ld.ep0 + k].idx = ld.p0 + k]_vars

\* C26, its case: a load has failed on the primitive capacity after it had added
\* a vertex and the first triangle of a quad, and both are in the scene.
C26_Witness ==
    /\ last[CapThread] = [op |-> "entityLoadModel", ok |-> FALSE, idx |-> 0]
    /\ loc[CapThread].pc = "idle"
    /\ Len(scenes[scene].primitives) = limit_primitives
    /\ Len(scenes[scene].entities[1].primitives) = limit_primitives
    /\ Len(scenes[scene].vertices) = 1

\* C27: on every pool size, a render task that waits for the update jobs it
\* enqueued on the pool leaves that wait: the jobs run and the task goes on.
C27_SyncJobsComplete ==
    \A w \in 1..MaxRunThreads :
        (w \in Workers /\ Inside(w, "render", "ue_wait"))
            ~> ~(w \in Workers /\ Inside(w, "render", "ue_wait"))

\* The collection mutexes of the current scene thread t holds.
Held(t) == {c \in Colls : cmutex[scene][c] = t}

\* The collection mutex thread t is about to lock, if it is at a lock.
Wanted(t) ==
    CASE loc[t].pc \in {"add_lock", "us_lock"} -> {loc[t].coll}
      [] loc[t].pc \in {"eap1_lock", "eap3_lock_e", "em_lock_e", "et_lock_e"} -> {"entities"}
      [] loc[t].pc \in {"eap3_lock_p", "em_lock_p"} -> {"primitives"}
      [] loc[t].pc = "et_lock_t" -> {"transforms"}
      [] loc[t].pc = "cw_lock" -> {"camera"}
      [] loc[t].pc = "urs_lock" -> {"primitives"}
      [] loc[t].pc = "url_lock" -> {"camera"}
      [] OTHER -> {}

\* A thread inside a call that is neither waiting for Environment::guard nor for
\* a collection mutex held by another thread.
CanStep(t) ==
    /\ loc[t].pc # "idle"
    /\ ENABLED (MutatorStep(t) \/ RenderStep(t))

\* C28: a thread locks a collection mutex only while it holds Environment::guard
\* shared; it locks a second collection mutex only as primitives or transforms
\* under entities; replaceScene holds no collection mutex; whenever a thread is
\* inside a call some thread inside a call can take a step (no deadlock); and
\* every call returns.
C28_LockOrderNoDeadlock ==
    /\ [](\A t \in EnvThreads :
            /\ (Held(t) # {} \/ Wanted(t) # {}) => t \in guardShared
            /\ Wanted(t) # {} =>
                  \/ Held(t) = {}
                  \/ Held(t) = {"entities"} /\ Wanted(t) \in {{"primitives"}, {"transforms"}}
            /\ Held(t) \in {{}, {"entities", "primitives"}, {"entities", "transforms"}}
                              \cup {{c} : c \in Colls}
            /\ loc[t].op = "replaceScene" => Held(t) = {} /\ t \notin guardShared)
    /\ []((\E t \in EnvThreads : loc[t].pc # "idle") => \E t \in EnvThreads : CanStep(t))
    /\ \A t \in EnvThreads : (loc[t].pc # "idle") ~> (loc[t].pc = "idle")

\* C28, its case: a thread inside entityTranslate holds the entities mutex and
\* waits for the transforms mutex, which the renderer holds inside updateScene.
C28_Witness ==
    \E t \in Mutators :
        /\ loc[t].pc = "et_lock_t"
        /\ Held(t) = {"entities"}
        /\ Held(RenderThread) = {"transforms"}
        /\ ~CanStep(t)

\* C29: no scene is deleted more than once; once every call has returned, every
\* scene that was installed and replaced has been deleted (only the current one
\* is alive); and the current scene is the first one or one passed to
\* replaceScene.
C29_ScenesDestroyedOnce ==
    /\ \A s \in SceneIds : scenes[s].deletes <= 1
    /\ (\A t \in EnvThreads : loc[t].pc = "idle") =>
          \A s \in 1..nScenes : s # scene => scenes[s].life = "deleted"
    /\ scene \in 1..nScenes

\* The names of the add functions.
AddNames == {AddName(c) : c \in AddColls}

\* C30: under concurrent add calls no collection is ever larger than its
\* capacity; the last successful calls of two threads on one collection returned
\* different indices; a call that succeeds returns the size the collection had
\* when it appended and has stored its item at that index; and no step moves or
\* removes an element already stored.
C30_ConcurrentAddsIndexed ==
    /\ [](\A c \in AddColls : Len(scenes[scene][c]) <= Limit(c))
    /\ [](\A t \in Mutators, u \in Mutators :
            (/\ t # u
             /\ last[t].op \in AddNames /\ last[t].op = last[u].op
             /\ last[t].ok /\ last[u].ok) => last[t].idx # last[u].idx)
    /\ [][\A t \in Mutators :
            (loc[t].pc = "add_body" /\ loc'[t].pc = "idle" /\ last'[t].ok) =>
                /\ last'[t].idx = Len(scenes[scene][loc[t].coll])
                /\ scenes'[scene][loc[t].coll] =
                       Append(scenes[scene][loc[t].coll], loc[t].item)]_vars
    /\ [][\A c \in AddColls :
            /\ Len(scenes'[scene][c]) >= Len(scenes[scene][c])
            /\ SubSeq(scenes'[scene][c], 1, Len(scenes[scene][c])) = scenes[scene][c]]_vars

\* C30, its case: two threads race for the last place of the materials, one
\* inside the locked block and the other waiting for the mutex, after an earlier
\* call took the place before.
C30_Witness ==
    \E t \in Mutators, u \in Mutators :
        /\ loc[t].pc = "add_body" /\ loc[u].pc = "add_lock"
        /\ loc[t].coll = "materials" /\ loc[u].coll = "materials"
        /\ Len(scenes[scene].materials) = limit_materials - 1

\* ------------------------------------------------------------------------
\* Claims on composite calls, the delta-sync and the worker loop.
\* ------------------------------------------------------------------------
\* C31: every entity of the current scene designates a transform of the current
\* scene (its transform_idx is an index into scene->transforms), and every
\* primitive address it holds points into the primitive vector of the current
\* scene, whatever replaceScene calls ran between the steps of newEntity and of
\* entityAddPrimitive.
C31_CompositeOnOneScene ==
    \A e \in 1..Len(scenes[scene].entities) :
        LET entity == scenes[scene].entities[e]
        IN  /\ entity.transform_idx < Len(scenes[scene].transforms)
            /\ \A k \in 1..Len(entity.primitives) : entity.primitives[k].s = scene

\* C32: while the flag of the primitives is clear, the RayTracer's copy of the
\* primitives holds every primitive of the scene and n_primitives is the
\* number of primitives of the scene.
C32_CleanMeansSynced ==
    ~scenes[scene].updated["primitives"] =>
        /\ Prefix(rend.primitives, Len(scenes[scene].primitives)) = scenes[scene].primitives
        /\ rend.n_primitives = Len(scenes[scene].primitives)

\* C33: while a render task is queued or running, the rendering flag is set; and
\* when run has returned, no render task is queued or running.
C33_RenderingCoversTask ==
    /\ (ActiveRenderTasks # {} \/ QueuedRenderTasks # {}) => nucleus.rendering
    /\ run.pc = "returned" => (ActiveRenderTasks = {} /\ QueuedRenderTasks = {})

\* C34: a wait on the fence that timed out is not followed by another wait: once
\* a waitForFences of the call has returned a timeout, the call is not waiting on
\* the fence again and does not return as after a presented frame.
C34_TimeoutNotRetried ==
    frame.timeouts > 0 =>
        /\ frame.pc \notin {"wait_acquire", "wait_frame"}
        /\ frame.result # "true"

\* C35: a block of updateScene that finds the flag of its collection set and
\* does not throw leaves the whole collection in the render-side copy and the
\* flag clear; a block that finds the flag clear changes neither the copy nor
\* the flag; no block changes the copy of another collection; updateScene
\* returns true exactly if it found a flag set; and updateRayLauncher with the
\* camera flag clear returns false and changes neither the scene nor the copies.
C35_DeltaSyncExact ==
    [][LET t == RenderThread
           c == loc[t].coll
           dirty == scenes[scene].updated[c]
           thrown == dirty /\ scenes'[scene].updated[c]
       IN  /\ (loc[t].pc = "us_body" /\ loc'[t].pc # "us_body") =>
                /\ (dirty /\ ~thrown) =>
                      /\ Prefix(rend'[c], Len(scenes[scene][c])) = scenes[scene][c]
                      /\ ~scenes'[scene].updated[c]
                /\ ~dirty => (rend'[c] = rend[c] /\ ~scenes'[scene].updated[c])
                /\ \A d \in {"vertices", "transforms", "materials", "primitives"} \ {c} :
                      rend'[d] = rend[d] /\ scenes'[scene].updated[d] = scenes[scene].updated[d]
                /\ (loc'[t].pc = "idle" /\ ~thrown) => (last'[t].ok = (loc[t].upd \/ dirty))
           /\ (/\ loc[t].pc = "url_body" /\ loc'[t].pc # "url_body"
               /\ ~scenes[scene].updated["camera"]) =>
                /\ loc'[t].pc = "idle" /\ ~last'[t].ok
                /\ rend' = rend /\ scenes' = scenes]_vars

\* C36: in a call of renderFrame the delta-sync is made only once the image is
\* acquired, nothing is submitted to the compute queue before the delta-sync is
\* done, and the image of the call is requested for presentation and presented
\* only after the wait on the fence of the frame has returned.
C36_FrameOrder ==
    /\ frame.synced => frame.pc \notin {"acquire", "wait_acquire"}
    /\ frame.submits # <<>> => frame.synced
    /\ frame.pc = "wait_frame" =>
          (dev.present = <<>> /\ dev.presented < frame.calls)

\* C37: no worker leaves cycle() while the pool is not stopping, whatever its
\* tasks did; and the step in which the task of a worker throws makes the
\* future of that task ready, leaves the queue as it is and puts the worker back
\* at the locked block of cycle(), where it takes the next task as any worker.
C37_ThrowKeepsWorker ==
    /\ [](\A w \in Workers : wstate[w] # "exited")
    /\ [](\A w \in Workers : (wstate[w] = "lock" /\ tasks # <<>>) =>
              ENABLED (Cycle(w) /\ wstate'[w] = "task"))
    /\ [][\A w \in Workers :
            (Inside(w, "render", "rf_timeout") /\ wpc'[w].pc # "rf_timeout") =>
                /\ wtask[w].id \in run'.ready
                /\ wstate'[w] = "lock"
                /\ tasks' = tasks]_vars

\* C37, its case: the worker whose task threw is running a task that was
\* enqueued after that.
C37_Witness ==
    /\ run.thrower \in Workers
    /\ wstate[run.thrower] = "task"
    /\ wtask[run.thrower].id > run.issuedAtThrow

\* C38: once ~ThreadPool has set stopping, it returns: every join completes;
\* when it has returned every worker has left cycle(); and from the notify_all
\* on no worker is blocked on the condition variable.
C38_DestructorTerminates ==
    /\ (cpc = "notify_all") ~> (cpc = "destroyed")
    /\ [](cpc = "destroyed" => \A w \in Workers : wstate[w] = "exited")
    /\ [](cpc \in {"join", "destroyed"} => \A w \in Workers : wstate[w] # "waiting")

\* C38, its case: stopping was set while one worker was blocked on the condition
\* variable and another was running a task, with a task still queued.
C38_Witness ==
    /\ cpc = "notify_all"
    /\ tasks # <<>>
    /\ \E w1, w2 \in Workers : wstate[w1] = "waiting" /\ wstate[w2] = "task"

\* C39: a worker leaves cycle() only with stopping set and the queue empty; a
\* worker that goes on to run a task has moved exactly the front task out of
\* the queue, and the queue loses a task in no other step; and while a worker
\* runs a task, enqueue can add to the queue and any worker at the locked block
\* can take the front task.
C39_WorkerLoop ==
    /\ [][\A w \in Workers :
            (wstate[w] # "exited" /\ wstate'[w] = "exited") =>
                (stopping /\ tasks = <<>>)]_vars
    /\ [][\A w \in Workers :
            (wstate[w] = "lock" /\ wstate'[w] = "task") =>
                (tasks # <<>> /\ wtask'[w] = Head(tasks) /\ tasks' = Tail(tasks))]_vars
    /\ [][Len(tasks') < Len(tasks) =>
            \E w \in Workers : wstate[w] = "lock" /\ wstate'[w] = "task"]_vars
    /\ []((\E w \in Workers : wstate[w] = "task") =>
            /\ (cpc = "enqueue" /\ ci <= nTasks) => ENABLED Enqueue
            /\ \A v \in Workers :
                  (wstate[v] = "lock" /\ tasks # <<>>) =>
                      ENABLED (Cycle(v) /\ wstate'[v] = "task"))

\* C39, its case: while one worker runs a task, the caller has just added a
\* task to the queue and another worker is at the locked block.
C39_Witness ==
    /\ cpc = "notify"
    /\ tasks # <<>>
    /\ \E w, v \in Workers : wstate[w] = "task" /\ wstate[v] = "lock"

\* C40: no step of entityAddPrimitive before the return of addPrimitive changes
\* a scene; and the step in which its addPrimitive finds the primitives at
\* capacity returns false from entityAddPrimitive and leaves every scene as it
\* was: the primitives, their flag and the primitive list of the entity.
C40_FullAddPrimitiveNoChange ==
    [][LET t == CapThread
       IN  (loc[t].op = "entityAddPrimitive" /\ loc'[t] # loc[t]) =>
              /\ loc[t].pc \in {"eap1_shared", "eap1_lock", "eap1_body",
                                "add_shared", "add_lock"} => scenes' = scenes
              /\ (/\ loc[t].pc = "add_body"
                  /\ Len(scenes[scene].primitives) = limit_primitives) =>
                    /\ loc'[t].pc = "idle"
                    /\ last'[t] = [op |-> "entityAddPrimitive", ok |-> FALSE, idx |-> 0]
                    /\ scenes' = scenes]_vars

\* C40, its case: entityAddPrimitive has failed on the full collection after a
\* sync of the renderer had cleared the flag of the primitives, and the flag is
\* still clear.
C40_Witness ==
    /\ last[CapThread] = [op |-> "entityAddPrimitive", ok |-> FALSE, idx |-> 0]
    /\ Len(scenes[scene].primitives) = limit_primitives
    /\ Len(scenes[scene].entities[1].primitives) = limit_primitives
    /\ ~scenes[scene].updated["primitives"]

====
